---- MODULE Spec2Model ----
(***************************************************************************)
(* PlayBox backend: the session-credential lifecycle (register, login,     *)
(* logout, refresh, change password) and the toggle operations (likes,     *)
(* subscriptions), modelled from the controllers and the mongoose schemas. *)
(*                                                                         *)
(* Conventions of the model.                                               *)
(*  - The User collection is a sequence of documents; a document's _id is  *)
(*    its index, and natural (insertion) order is the order of the         *)
(*    sequence.  The Like and Subscription collections are sets of rows.   *)
(*  - A password value is [base, depth]: bcrypt applied depth times to the *)
(*    plaintext base (depth 0 is the plaintext itself).  The salt is left  *)
(*    out: bcrypt.compare accepts a hash under any salt.                   *)
(*  - A refresh token is [uid, n]: the n-th refresh token signed for       *)
(*    account uid.  Token signing is not in the model file of the          *)
(*    repository; it is modelled from the specification, which has every   *)
(*    issue produce a new token.  Token expiry is left out.                *)
(*  - Profile fields (full name, avatar and cover URLs) are not tracked.   *)
(*  - Clients supply plaintext passwords: a stored hash is never returned  *)
(*    to a client (select("-password")), so it is not an input.            *)
(***************************************************************************)
EXTENDS Integers, Sequences, FiniteSets, TLC

(***************************************************************************)
(* Bounds.                                                                 *)
(***************************************************************************)
\* Refresh tokens signed in all, over every account.
MaxTokens == 4
\* Concurrent refresh requests.
NumCallers == 2
\* Comments created in all.
MaxComments == 3
\* The cached like count up to which a video is liked once more.
MaxLikeCount == 3

(***************************************************************************)
(* Inputs.                                                                 *)
(***************************************************************************)
\* "" is a blank (or absent) request field.
Blank == ""
\* What a login request may name.
LoginUsernames == {"AL", "bo"}
LoginEmails == {"X@M", "y@m"}
Plaintexts == {"p", "q"}
\* Registration alone is checked over a wider alphabet.
RegisterUsernames == {"al", "AL", "bo", "cy"}
RegisterEmails == {"x@m", "X@M", "y@m", "z@m"}

\* String.prototype.toLowerCase and the schema's lowercase setter, on the
\* strings above.
toLowerCase(s) ==
    CASE s = "AL" -> "al"
      [] s = "X@M" -> "x@m"
      [] OTHER -> s

(***************************************************************************)
(* Tokens.                                                                 *)
(***************************************************************************)
\* No token: the field is null/undefined, or the request carries none.
NoToken == [uid |-> 0, n |-> 0]
\* A token that was not signed with REFRESH_TOKEN_SECRET.
ForgedToken == [uid |-> 0, n |-> 1]

VARIABLES
    users,        \* the users collection: Seq of [username, email, password, refreshToken]
    issuedBy,     \* issuedBy[u][k]: the operation that signed the k-th refresh token of account u
    last,         \* the outcome of the last request
    calls,        \* the refresh requests in flight, one per concurrent caller
    deployed,     \* which revision of toggleVideoLike is the one in service
    likes,        \* the Like collection
    subscriptions,\* the Subscription collection
    videos,       \* the Video collection: the cached likeCount of each video
    called,       \* history: is the number of toggle calls made so far odd
    lastToggle,   \* the outcome of the last toggle request
    inflight,     \* the toggle requests in flight, one per concurrent caller
    comments,     \* the Comment collection
    playlists,    \* the Playlist collection
    lastPlaylist, \* the outcome of the last playlist request
    lastComment,  \* the outcome of the last updateComment or deleteComment request
    commentsCreated, \* history: the number of comments created so far
    tweets,       \* the Tweet collection
    stats,        \* the outcome of the last getChannelStats or getLikedVideos request
    now,          \* the clock that stamps createdAt
    listing,      \* the outcome of the last comment or reply listing request
    profile       \* the outcome of the last channel profile request

authVars == <<users, issuedBy, last>>
toggleVars == <<deployed, likes, subscriptions, videos, called, lastToggle>>
viewVars == <<inflight, comments, now, listing, profile>>
crudVars == <<playlists, lastPlaylist, lastComment, commentsCreated, tweets, stats>>
vars == <<users, issuedBy, last, calls, deployed, likes, subscriptions, videos,
          called, lastToggle, inflight, comments, now, listing, profile,
          playlists, lastPlaylist, lastComment, commentsCreated, tweets, stats>>

UserIds == 1 .. Len(users)

\* The stored refresh token of account u.
Stored(u) == users[u].refreshToken

\* How many refresh tokens were signed for account u.
issued(u) == Len(issuedBy[u])

RECURSIVE SumIssued(_)
\* How many refresh tokens were signed for the accounts 1 .. u.
SumIssued(u) == IF u = 0 THEN 0 ELSE issued(u) + SumIssued(u - 1)

\* The model signs at most MaxTokens refresh tokens.
MaySign == SumIssued(Len(users)) < MaxTokens

\* Every refresh token signed so far.
SignedTokens == {t \in [uid : UserIds, n : 1 .. MaxTokens] : t.n <= issued(t.uid)}

(***************************************************************************)
(* user.model.js                                                           *)
(***************************************************************************)
\* bcrypt.hash(value, 10)
bcryptHash(pw) == [base |-> pw.base, depth |-> pw.depth + 1]

\* Mutant: the comparison accepts every candidate.
isPasswordMatchAny(user, candidate) == TRUE

\* bcrypt.compare(password, this.password): the stored value is a hash of
\* the candidate.
isPasswordMatch(user, candidate) ==
    /\ user.password.depth >= 1
    /\ user.password = bcryptHash(candidate)

\* userSchema.pre("save"): returns early when the password IS modified,
\* hashes the password field otherwise.
preSave(doc, passwordModified) ==
    IF passwordModified
    THEN doc
    ELSE [doc EXCEPT !.password = bcryptHash(@)]

\* user.generateRefreshToken(): the next token signed for the account.
generateRefreshToken(u) == [uid |-> u, n |-> issued(u) + 1]

\* jwt.verify(token, REFRESH_TOKEN_SECRET): the token was signed by the server.
jwtVerify(tok) == tok \in SignedTokens

(***************************************************************************)
(* Queries.                                                                *)
(***************************************************************************)
\* Mutant: the query values are compared as given, without the lowercase setter.
MatchingUsersExact(username, email) ==
    {u \in UserIds :
        \/ username # Blank /\ users[u].username = username
        \/ email # Blank /\ users[u].email = email}

\* The documents User.findOne({$or: [{username}, {email}]}) matches: the query
\* is cast through the schema, whose lowercase setter runs on both values.
\* A blank value stands for an absent one, which matches no document.
MatchingUsers(username, email) ==
    {u \in UserIds :
        \/ username # Blank /\ users[u].username = toLowerCase(username)
        \/ email # Blank /\ users[u].email = toLowerCase(email)}

\* findOne returns the first match in natural order; 0 stands for null.
findOneUser(username, email) ==
    IF MatchingUsers(username, email) = {}
    THEN 0
    ELSE CHOOSE u \in MatchingUsers(username, email) :
            \A v \in MatchingUsers(username, email) : u <= v

\* The unique indexes on username and email reject the insert (E11000).
UniqueIndexRejects(doc) ==
    \E u \in UserIds :
        users[u].username = doc.username \/ users[u].email = doc.email

(***************************************************************************)
(* user.controller.js                                                      *)
(***************************************************************************)
\* What the caller gets: the HTTP status, the account the response is about
\* (0: none) and the refresh token of the response body; token is the
\* refresh token the request presented.
Response(op, status, uid, token, refreshToken) ==
    [op |-> op, status |-> status, uid |-> uid, token |-> token,
     refreshToken |-> refreshToken,
     username |-> Blank, email |-> Blank, password |-> Blank]

\* The same for a login, with the credentials the request gave.
LoginResponse(status, uid, refreshToken, username, email, password) ==
    [op |-> "login", status |-> status, uid |-> uid, token |-> NoToken,
     refreshToken |-> refreshToken,
     username |-> username, email |-> email, password |-> password]

\* Mutant: the signed token is returned but not set on the document.
SavedWithoutToken(doc, tok) == preSave(doc, FALSE)

\* generateAccessAndRefreshToken(userId): load the user, sign the tokens, set
\* refreshToken and save (the save runs the pre-save hook with the password
\* not modified).  The document as saved.
SavedWithToken(doc, tok) ==
    preSave([doc EXCEPT !.refreshToken = tok], FALSE)

\* registerUser
registerUser(username, email, password, avatarOk) ==
    LET doc == [username |-> toLowerCase(username), email |-> toLowerCase(email),
                password |-> [base |-> password, depth |-> 0],
                refreshToken |-> NoToken]
        \* User.create: a new document, every set path modified
        created == preSave(doc, TRUE)
        uid == Len(users) + 1
        tok == [uid |-> uid, n |-> 1]
    IN  IF username = Blank \/ email = Blank \/ password = Blank
        THEN /\ last' = Response("register", 400, 0, NoToken, NoToken)
             /\ UNCHANGED <<users, issuedBy>>
        ELSE IF findOneUser(username, email) # 0
        THEN /\ last' = Response("register", 409, 0, NoToken, NoToken)
             /\ UNCHANGED <<users, issuedBy>>
        ELSE IF ~avatarOk
        THEN /\ last' = Response("register", 400, 0, NoToken, NoToken)
             /\ UNCHANGED <<users, issuedBy>>
        ELSE IF UniqueIndexRejects(created)
        THEN /\ last' = Response("register", 500, 0, NoToken, NoToken)
             /\ UNCHANGED <<users, issuedBy>>
        ELSE /\ MaySign
             /\ users' = Append(users, SavedWithToken(created, tok))
             /\ issuedBy' = Append(issuedBy, <<"register">>)
             /\ last' = Response("register", 201, uid, NoToken, tok)

\* loginUser
loginUser(username, email, password) ==
    LET uid == findOneUser(username, email)
        tok == generateRefreshToken(uid)
    IN  IF username = Blank /\ email = Blank
        THEN /\ last' = LoginResponse(400, 0, NoToken, username, email, password)
             /\ UNCHANGED <<users, issuedBy>>
        ELSE IF uid = 0
        THEN /\ last' = LoginResponse(404, 0, NoToken, username, email, password)
             /\ UNCHANGED <<users, issuedBy>>
        ELSE IF ~isPasswordMatch(users[uid], [base |-> password, depth |-> 0])
        THEN /\ last' = LoginResponse(401, 0, NoToken, username, email, password)
             /\ UNCHANGED <<users, issuedBy>>
        ELSE /\ MaySign
             /\ users' = [users EXCEPT ![uid] = SavedWithToken(@, tok)]
             /\ issuedBy' = [issuedBy EXCEPT ![uid] = Append(@, "login")]
             /\ last' = LoginResponse(200, uid, tok, username, email, password)

\* logoutUser of user.controller.js: findByIdAndUpdate(req.user._id,
\* {$set: {refreshToken: undefined}}).  What an undefined value in $set does
\* depends on the mongoose the build installs: mongoose 5 writes null,
\* mongoose 6 and later strip the key and write nothing.
logoutUser(uid, stripsUndefined) ==
    /\ users' = IF stripsUndefined
                THEN users
                ELSE [users EXCEPT ![uid].refreshToken = NoToken]
    /\ last' = Response("logout", 200, uid, NoToken, NoToken)
    /\ UNCHANGED issuedBy

\* logoutUser of the later revision: {$unset: {refreshToken: 1}}.
logoutUserUnset(uid) ==
    /\ users' = [users EXCEPT ![uid].refreshToken = NoToken]
    /\ last' = Response("logout", 200, uid, NoToken, NoToken)
    /\ UNCHANGED issuedBy

\* Mutant: the comparison with the stored token is left out.
RefreshTokenMatchesAny(user, incoming) == TRUE

\* user.refreshToken !== incomingRefreshToken is false
RefreshTokenMatches(user, incoming) == user.refreshToken = incoming

\* What refreshAccessToken destructures from the object
\* generateAccessAndRefreshToken returns, {accessToken, refreshToken}: the
\* property newRefreshToken, which the object does not have.
newRefreshToken(pair) == NoToken

\* Whether refreshAccessToken accepts the incoming token in this state.
RefreshAccepts(incoming) ==
    /\ incoming # NoToken
    /\ jwtVerify(incoming)
    /\ RefreshTokenMatches(users[incoming.uid], incoming)

\* refreshAccessToken
refreshAccessToken(incoming) ==
    LET uid == incoming.uid
        tok == generateRefreshToken(uid)
    IN  IF ~RefreshAccepts(incoming)
        THEN /\ last' = Response("refresh", 401, 0, incoming, NoToken)
             /\ UNCHANGED <<users, issuedBy>>
        ELSE /\ MaySign
             /\ users' = [users EXCEPT ![uid] = SavedWithToken(@, tok)]
             /\ issuedBy' = [issuedBy EXCEPT ![uid] = Append(@, "refresh")]
             /\ last' = Response("refresh", 200, uid, incoming,
                                 newRefreshToken([refreshToken |-> tok]))

\* Mutant: the failed check answers 401 but the new password is saved all the same.
changeCurrentPasswordUnchecked(uid, oldPassword, newPassword) ==
    /\ users' = [users EXCEPT ![uid] =
                    preSave([@ EXCEPT !.password = [base |-> newPassword, depth |-> 0]],
                            @.password # [base |-> newPassword, depth |-> 0])]
    /\ last' = Response("changePassword",
                        IF users[uid].password = [base |-> oldPassword, depth |-> 1]
                        THEN 200 ELSE 401,
                        uid, NoToken, NoToken)
    /\ UNCHANGED issuedBy

\* changeCurrentPassword: user.password = newPassword marks the path modified
\* only when the value differs from the stored one; the save then runs the
\* pre-save hook.
changeCurrentPassword(uid, oldPassword, newPassword) ==
    LET new == [base |-> newPassword, depth |-> 0]
    IN  IF ~isPasswordMatch(users[uid], [base |-> oldPassword, depth |-> 0])
        THEN /\ last' = Response("changePassword", 401, uid, NoToken, NoToken)
             /\ UNCHANGED <<users, issuedBy>>
        ELSE /\ users' = [users EXCEPT ![uid] =
                            preSave([@ EXCEPT !.password = new], @.password # new)]
             /\ last' = Response("changePassword", 200, uid, NoToken, NoToken)
             /\ UNCHANGED issuedBy

\* No concurrent caller.
NoCalls == << >>

(***************************************************************************)
(* Likes and subscriptions: the collections and the toggle requests.       *)
(***************************************************************************)
\* The authenticated users (req.user._id) making toggle requests; they are
\* also the channels.
Actors == {1, 2}
\* Well-formed video ids; video 2 is not in the Video collection.
VideoIds == {1, 2}
ExistingVideos == {1}
CommentIds == {1}
TweetIds == {1}
\* A request parameter that is not an ObjectId, and the unset (or null) field
\* of a document.
MalformedId == -1
NoId == 0

isValidObjectId(id) == id # MalformedId

\* The relations a toggle request can name: the kind, the actor and the
\* target.
Relations ==
    [kind : {"video"}, actor : Actors, target : VideoIds]
    \cup [kind : {"comment"}, actor : Actors, target : CommentIds]
    \cup [kind : {"tweet"}, actor : Actors, target : TweetIds]
    \cup [kind : {"subscription"}, actor : Actors, target : Actors]

\* No row.
NoRow == [id |-> 0]

\* The rows of Like.find({<kind>: target, likedBy: userId}).
LikeRows(kind, target, userId) ==
    {row \in likes : row[kind] = target /\ row.likedBy = userId}

\* The rows of Subscription.find({channel, subscriber}).
SubscriptionRows(channelId, subscriberId) ==
    {row \in subscriptions : row.channel = channelId /\ row.subscriber = subscriberId}

\* findOne: the first row of a result, or none.
findOne(rows) ==
    IF rows = {} THEN NoRow
    ELSE CHOOSE row \in rows : \A other \in rows : row.id <= other.id

\* The _id of a created row: rows with the same fields are told apart by it.
NewId(rows) == CHOOSE k \in 1 .. Cardinality(rows) + 1 : \A row \in rows : row.id # k

\* Like.create({<kind>: target, likedBy: userId})
NewLike(kind, target, userId) ==
    [[video |-> NoId, comment |-> NoId, tweet |-> NoId, likedBy |-> userId,
      id |-> NewId(LikeRows(kind, target, userId))] EXCEPT ![kind] = target]

\* Subscription.create({subscriber, channel})
NewSubscription(channelId, subscriberId) ==
    [subscriber |-> subscriberId, channel |-> channelId,
     id |-> NewId(SubscriptionRows(channelId, subscriberId))]

\* What a toggle request answered: the status, whether it reported the
\* relation as now present (liked, subscribed), and the totalLikes it
\* returned (the like-count revision only).
ToggleResponse(op, actor, target, status, liked, totalLikes) ==
    [op |-> op, actor |-> actor, target |-> target, status |-> status,
     liked |-> liked, totalLikes |-> totalLikes]

\* What a listing request answered: the status, the $skip and $limit values
\* of its pipeline, the sort direction, the entries of the page, and pages,
\* the ids returned by the consecutive page requests 1, 2, ... made with the
\* same limit and direction since the last write.
ListingResponse(op, status, target, viewer, skip, take, sortOption, entries, pages) ==
    [op |-> op, status |-> status, target |-> target, viewer |-> viewer,
     skip |-> skip, take |-> take, sortOption |-> sortOption,
     entries |-> entries, pages |-> pages]

\* What a channel profile request answered.
ProfileResponse(status, username, viewer, id, subscribersCount, subscribedToCount, isSubscribed) ==
    [status |-> status, username |-> username, viewer |-> viewer, id |-> id,
     subscribersCount |-> subscribersCount,
     subscribedToCount |-> subscribedToCount, isSubscribed |-> isSubscribed]

\* No toggle in flight, no comment, no listing or profile requested.
NoViews ==
    /\ inflight = << >>
    /\ comments = {}
    /\ now = 1
    /\ listing = ListingResponse("none", 0, 0, 0, 0, 0, 0, << >>, << >>)
    /\ profile = ProfileResponse(0, "", 0, 0, 0, 0, FALSE)

\* What a playlist request, and what updateComment or deleteComment, answered.
PlaylistResponse(op, status, caller, target) ==
    [op |-> op, status |-> status, caller |-> caller, target |-> target]

CommentResponse(op, status, caller, target) ==
    [op |-> op, status |-> status, caller |-> caller, target |-> target]

\* What getChannelStats or getLikedVideos answered.
StatsResponse(op, status, caller, totalVideos, totalSubscribers, totalTweets, likedVideos) ==
    [op |-> op, status |-> status, caller |-> caller, totalVideos |-> totalVideos,
     totalSubscribers |-> totalSubscribers, totalTweets |-> totalTweets,
     likedVideos |-> likedVideos]

\* No playlist, no tweet, none of these requests made, and every comment
\* created so far still stored.
NoCrud ==
    /\ playlists = {}
    /\ lastPlaylist = PlaylistResponse("none", 0, 0, 0)
    /\ lastComment = CommentResponse("none", 0, 0, 0)
    /\ commentsCreated = Cardinality(comments)
    /\ tweets = {}
    /\ stats = StatsResponse("none", 0, 0, 0, 0, 0, {})

\* No like, no subscription, video 1 with a like count of 0, no toggle made.
NoToggles ==
    /\ deployed = "like.controller"
    /\ likes = {}
    /\ subscriptions = {}
    /\ videos = [v \in ExistingVideos |-> [likeCount |-> 0]]
    /\ called = [rel \in Relations |-> FALSE]
    /\ lastToggle = ToggleResponse("none", 0, 0, 0, FALSE, 0)

Init ==
    /\ users = << >>
    /\ issuedBy = << >>
    /\ last = Response("none", 0, 0, NoToken, NoToken)
    /\ calls = NoCalls
    /\ NoToggles
    /\ NoViews
    /\ NoCrud

\* The registrations of the credential lifecycle: two people, each with one
\* username and one email address.
Registrants == {<<"al", "x@m">>, <<"bo", "y@m">>}

Register ==
    \E who \in Registrants, password \in Plaintexts, avatarOk \in BOOLEAN :
        /\ registerUser(who[1], who[2], password, avatarOk)
        /\ UNCHANGED <<calls, toggleVars, viewVars, crudVars>>

Login ==
    \E username \in LoginUsernames \cup {Blank}, email \in LoginEmails \cup {Blank},
       password \in Plaintexts :
        /\ loginUser(username, email, password)
        /\ UNCHANGED <<calls, toggleVars, viewVars, crudVars>>

\* verifyJWT admits the holder of an unexpired access token of the account;
\* access tokens are not stored, so any registered account may be the caller.
Logout ==
    \E uid \in UserIds, stripsUndefined \in BOOLEAN :
        /\ logoutUser(uid, stripsUndefined)
        /\ UNCHANGED <<calls, toggleVars, viewVars, crudVars>>

LogoutUnset ==
    \E uid \in UserIds :
        /\ logoutUserUnset(uid)
        /\ UNCHANGED <<calls, toggleVars, viewVars, crudVars>>

Refresh ==
    \E incoming \in SignedTokens \cup {NoToken, ForgedToken} :
        /\ refreshAccessToken(incoming)
        /\ UNCHANGED <<calls, toggleVars, viewVars, crudVars>>

ChangePassword ==
    \E uid \in UserIds, oldPassword \in Plaintexts, newPassword \in Plaintexts :
        /\ changeCurrentPassword(uid, oldPassword, newPassword)
        /\ UNCHANGED <<calls, toggleVars, viewVars, crudVars>>

Next ==
    \/ Register
    \/ Login
    \/ Logout
    \/ LogoutUnset
    \/ Refresh
    \/ ChangePassword

Spec == Init /\ [][Next]_vars

\* Registration alone, over every username and email of the input alphabet.
RegisterAny ==
    \E username \in RegisterUsernames \cup {Blank}, email \in RegisterEmails,
       password \in Plaintexts, avatarOk \in BOOLEAN :
        /\ registerUser(username, email, password, avatarOk)
        /\ UNCHANGED <<calls, toggleVars, viewVars, crudVars>>

SpecRegister == Init /\ [][RegisterAny]_vars

(***************************************************************************)
(* Concurrent refresh requests: refreshAccessToken step by step.  A handler *)
(* runs until its next await; the awaits are the two reads of the user     *)
(* (User.findById in refreshAccessToken and in                              *)
(* generateAccessAndRefreshToken) and the save.                             *)
(***************************************************************************)
Callers == 1 .. NumCallers

\* A request that has not started: the refresh token it will present.
NewCall(incoming) ==
    [pc |-> "start", incoming |-> incoming, signed |-> NoToken,
     password |-> [base |-> Blank, depth |-> 0],
     status |-> 0, refreshToken |-> NoToken]

\* jwt.verify, User.findById(decodedToken._id) and the comparison with the
\* stored token, which is made on the document just read.
RefreshRead(c) ==
    /\ calls[c].pc = "start"
    /\ calls' = [calls EXCEPT ![c] =
                    IF RefreshAccepts(calls[c].incoming)
                    THEN [@ EXCEPT !.pc = "compared"]
                    ELSE [@ EXCEPT !.pc = "done", !.status = 401]]
    /\ UNCHANGED <<users, issuedBy, last, toggleVars, viewVars, crudVars>>

\* generateAccessAndRefreshToken up to the save: User.findById(userId), the
\* tokens signed, refreshToken set on the loaded document, and the pre-save
\* hook run on it.
RefreshLoad(c) ==
    LET uid == calls[c].incoming.uid
        tok == generateRefreshToken(uid)
        doc == SavedWithToken(users[uid], tok)
    IN  /\ calls[c].pc = "compared"
        /\ MaySign
        /\ issuedBy' = [issuedBy EXCEPT ![uid] = Append(@, "refresh")]
        /\ calls' = [calls EXCEPT ![c] =
                        [@ EXCEPT !.pc = "loaded", !.signed = doc.refreshToken,
                                  !.password = doc.password]]
        /\ UNCHANGED <<users, last, toggleVars, viewVars, crudVars>>

\* A save that never reaches the store.
RefreshSaveLost(c) ==
    /\ calls[c].pc = "loaded"
    /\ calls' = [calls EXCEPT ![c] =
                    [@ EXCEPT !.pc = "done", !.status = 200,
                              !.refreshToken =
                                  newRefreshToken([refreshToken |-> calls[c].signed])]]
    /\ UNCHANGED <<users, issuedBy, last, toggleVars, viewVars, crudVars>>

\* The save reaches the store (the modified paths, refreshToken and password,
\* are written) and the response is sent.
RefreshSave(c) ==
    LET uid == calls[c].incoming.uid
    IN  /\ calls[c].pc = "loaded"
        /\ users' = [users EXCEPT ![uid].refreshToken = calls[c].signed,
                                  ![uid].password = calls[c].password]
        /\ calls' = [calls EXCEPT ![c] =
                        [@ EXCEPT !.pc = "done", !.status = 200,
                                  !.refreshToken =
                                      newRefreshToken([refreshToken |-> calls[c].signed])]]
        /\ UNCHANGED <<issuedBy, last, toggleVars, viewVars, crudVars>>

\* One account, registered (k = 1) and refreshed or logged in since (k = 2),
\* holding its k-th refresh token; every caller is about to present a token
\* signed for the account, or a forged one.
InitRace ==
    \E k \in 1 .. 2 :
        /\ users = <<[username |-> "al", email |-> "x@m",
                      password |-> [base |-> "p", depth |-> k],
                      refreshToken |-> [uid |-> 1, n |-> k]]>>
        /\ issuedBy = <<[i \in 1 .. k |-> IF i = 1 THEN "register" ELSE "refresh"]>>
        /\ last = Response("none", 0, 0, NoToken, NoToken)
        /\ calls \in [Callers -> {NewCall(t) :
                                    t \in {[uid |-> 1, n |-> i] : i \in 1 .. k}
                                          \cup {ForgedToken}}]
        /\ NoToggles
        /\ NoViews
        /\ NoCrud

NextRace ==
    \/ \E c \in Callers : RefreshRead(c)
    \/ \E c \in Callers : RefreshLoad(c)
    \/ \E c \in Callers : RefreshSave(c)

SpecRace == InitRace /\ [][NextRace]_vars

\* The callers whose refresh succeeded.
Winners == {c \in Callers : calls[c].status = 200}

\* C5: when concurrent refresh requests presenting the same stored token have
\* all completed, the stored refresh token is the token signed for one of the
\* requests that succeeded, and every other one of them is rejected by
\* refresh: neither the token signed for it nor the token it was handed is
\* accepted.
C5_RaceOneWinner ==
    (\A c \in Callers : calls[c].pc = "done")
    => \A a \in Winners :
          /\ \E w \in Winners : Stored(1) = calls[w].signed
          /\ calls[a].signed # Stored(1)
             => /\ ~RefreshAccepts(calls[a].signed)
                /\ ~RefreshAccepts(calls[a].refreshToken)

\* Two requests presented the same token, both succeeded, and the token
\* signed for the first of them is not the stored one.
C5_Witness ==
    /\ \A c \in Callers : calls[c].pc = "done"
    /\ \E a, b \in Winners :
          /\ a # b
          /\ calls[a].incoming = calls[b].incoming
          /\ calls[a].signed # Stored(1)
          /\ calls[b].signed = Stored(1)

(***************************************************************************)
(* The toggle handlers.  Requests do not overlap here: a handler runs from *)
(* its request to its response.                                            *)
(***************************************************************************)
\* Mutant: the row is looked up by its target alone, whoever likes it.
toggleLikeOfAnyone(op, kind, userId, target) ==
    LET existingLike == findOne({row \in likes : row[kind] = target})
    IN  IF ~isValidObjectId(target)
        THEN /\ lastToggle' = ToggleResponse(op, userId, target, 400, FALSE, 0)
             /\ UNCHANGED likes
        ELSE IF existingLike # NoRow
        THEN /\ likes' = likes \ {existingLike}
             /\ lastToggle' = ToggleResponse(op, userId, target, 200, FALSE, 0)
        ELSE /\ likes' = likes \cup {NewLike(kind, target, userId)}
             /\ lastToggle' = ToggleResponse(op, userId, target, 201, TRUE, 0)

\* A like toggle of like.controller.js: find the row, delete it or create it.
toggleLike(op, kind, userId, target) ==
    LET existingLike == findOne(LikeRows(kind, target, userId))
    IN  IF ~isValidObjectId(target)
        THEN /\ lastToggle' = ToggleResponse(op, userId, target, 400, FALSE, 0)
             /\ UNCHANGED likes
        ELSE IF existingLike # NoRow
        THEN /\ likes' = likes \ {existingLike}
             /\ lastToggle' = ToggleResponse(op, userId, target, 200, FALSE, 0)
        ELSE /\ likes' = likes \cup {NewLike(kind, target, userId)}
             /\ lastToggle' = ToggleResponse(op, userId, target, 201, TRUE, 0)

toggleVideoLike(userId, videoId) ==
    /\ toggleLike("toggleVideoLike", "video", userId, videoId)
    /\ UNCHANGED <<deployed, subscriptions, videos>>

\* Mutant: the like count is computed and returned, but the video is not saved.
toggleVideoLikeCountNoSave(userId, videoId) ==
    LET existingLike == findOne(LikeRows("video", videoId, userId))
        op == "toggleVideoLikeCount"
    IN  /\ IF ~isValidObjectId(videoId)
           THEN /\ lastToggle' = ToggleResponse(op, userId, videoId, 400, FALSE, 0)
                /\ UNCHANGED likes
           ELSE IF videoId \notin DOMAIN videos
           THEN /\ lastToggle' = ToggleResponse(op, userId, videoId, 404, FALSE, 0)
                /\ UNCHANGED likes
           ELSE IF existingLike # NoRow
           THEN /\ likes' = likes \ {existingLike}
                /\ lastToggle' = ToggleResponse(op, userId, videoId, 200, FALSE, 0)
           ELSE /\ likes' = likes \cup {NewLike("video", videoId, userId)}
                /\ lastToggle' = ToggleResponse(op, userId, videoId, 200, TRUE,
                                                videos[videoId].likeCount + 1)
        /\ UNCHANGED <<deployed, subscriptions, videos>>

\* Mutant: the unlike decrements the like count without a floor.
toggleVideoLikeCountNoFloor(userId, videoId) ==
    LET existingLike == findOne(LikeRows("video", videoId, userId))
        op == "toggleVideoLikeCount"
    IN  /\ IF ~isValidObjectId(videoId)
           THEN /\ lastToggle' = ToggleResponse(op, userId, videoId, 400, FALSE, 0)
                /\ UNCHANGED <<likes, videos>>
           ELSE IF videoId \notin DOMAIN videos
           THEN /\ lastToggle' = ToggleResponse(op, userId, videoId, 404, FALSE, 0)
                /\ UNCHANGED <<likes, videos>>
           ELSE IF existingLike # NoRow
           THEN LET likeCount == videos[videoId].likeCount - 1
                IN  /\ likes' = likes \ {existingLike}
                    /\ videos' = [videos EXCEPT ![videoId].likeCount = likeCount]
                    /\ lastToggle' = ToggleResponse(op, userId, videoId, 200, FALSE, likeCount)
           ELSE LET likeCount == videos[videoId].likeCount + 1
                IN  /\ likes' = likes \cup {NewLike("video", videoId, userId)}
                    /\ videos' = [videos EXCEPT ![videoId].likeCount = likeCount]
                    /\ lastToggle' = ToggleResponse(op, userId, videoId, 200, TRUE, likeCount)
        /\ UNCHANGED <<deployed, subscriptions>>

\* The revision of toggleVideoLike that keeps the video's likeCount.
toggleVideoLikeCount(userId, videoId) ==
    LET existingLike == findOne(LikeRows("video", videoId, userId))
        op == "toggleVideoLikeCount"
    IN  /\ IF ~isValidObjectId(videoId)
           THEN /\ lastToggle' = ToggleResponse(op, userId, videoId, 400, FALSE, 0)
                /\ UNCHANGED <<likes, videos>>
           ELSE IF videoId \notin DOMAIN videos
           THEN /\ lastToggle' = ToggleResponse(op, userId, videoId, 404, FALSE, 0)
                /\ UNCHANGED <<likes, videos>>
           ELSE IF existingLike # NoRow
           THEN LET likeCount == IF videos[videoId].likeCount >= 1
                                 THEN videos[videoId].likeCount - 1 ELSE 0
                IN  /\ likes' = likes \ {existingLike}
                    /\ videos' = [videos EXCEPT ![videoId].likeCount = likeCount]
                    /\ lastToggle' = ToggleResponse(op, userId, videoId, 200, FALSE, likeCount)
           ELSE LET likeCount == videos[videoId].likeCount + 1
                IN  /\ likes' = likes \cup {NewLike("video", videoId, userId)}
                    /\ videos' = [videos EXCEPT ![videoId].likeCount = likeCount]
                    /\ lastToggle' = ToggleResponse(op, userId, videoId, 200, TRUE, likeCount)
        /\ UNCHANGED <<deployed, subscriptions>>

toggleCommentLike(userId, commentId) ==
    /\ toggleLike("toggleCommentLike", "comment", userId, commentId)
    /\ UNCHANGED <<deployed, subscriptions, videos>>

toggleTweetLike(userId, tweetId) ==
    /\ toggleLike("toggleTweetLike", "tweet", userId, tweetId)
    /\ UNCHANGED <<deployed, subscriptions, videos>>

\* The revision of toggleSubscription that ends after the unsubscribe branch:
\* nothing is created and no response is sent.
toggleSubscriptionNoCreate(subscriberId, channelId) ==
    LET existingSubscription == findOne(SubscriptionRows(channelId, subscriberId))
        op == "toggleSubscription"
    IN  /\ IF ~isValidObjectId(channelId) \/ subscriberId = channelId
           THEN /\ lastToggle' = ToggleResponse(op, subscriberId, channelId, 400, FALSE, 0)
                /\ UNCHANGED subscriptions
           ELSE IF existingSubscription # NoRow
           THEN /\ subscriptions' = subscriptions \ {existingSubscription}
                /\ lastToggle' = ToggleResponse(op, subscriberId, channelId, 200, FALSE, 0)
           ELSE /\ lastToggle' = ToggleResponse(op, subscriberId, channelId, 0, FALSE, 0)
                /\ UNCHANGED subscriptions
        /\ UNCHANGED <<deployed, likes, videos>>

\* Mutant: the own-channel check is left out.
toggleSubscriptionOwnChannel(subscriberId, channelId) ==
    LET existingSubscription == findOne(SubscriptionRows(channelId, subscriberId))
        op == "toggleSubscription"
    IN  /\ IF ~isValidObjectId(channelId)
           THEN /\ lastToggle' = ToggleResponse(op, subscriberId, channelId, 400, FALSE, 0)
                /\ UNCHANGED subscriptions
           ELSE IF existingSubscription # NoRow
           THEN /\ subscriptions' = subscriptions \ {existingSubscription}
                /\ lastToggle' = ToggleResponse(op, subscriberId, channelId, 200, FALSE, 0)
           ELSE /\ subscriptions' = subscriptions \cup
                                        {NewSubscription(channelId, subscriberId)}
                /\ lastToggle' = ToggleResponse(op, subscriberId, channelId, 201, TRUE, 0)
        /\ UNCHANGED <<deployed, likes, videos>>

toggleSubscription(subscriberId, channelId) ==
    LET existingSubscription == findOne(SubscriptionRows(channelId, subscriberId))
        op == "toggleSubscription"
    IN  /\ IF ~isValidObjectId(channelId) \/ subscriberId = channelId
           THEN /\ lastToggle' = ToggleResponse(op, subscriberId, channelId, 400, FALSE, 0)
                /\ UNCHANGED subscriptions
           ELSE IF existingSubscription # NoRow
           THEN /\ subscriptions' = subscriptions \ {existingSubscription}
                /\ lastToggle' = ToggleResponse(op, subscriberId, channelId, 200, FALSE, 0)
           ELSE /\ subscriptions' = subscriptions \cup
                                        {NewSubscription(channelId, subscriberId)}
                /\ lastToggle' = ToggleResponse(op, subscriberId, channelId, 201, TRUE, 0)
        /\ UNCHANGED <<deployed, likes, videos>>

\* One more toggle call was made on the relation.
Called(kind, actor, target) ==
    called' = [rel \in Relations |->
                  IF rel = [kind |-> kind, actor |-> actor, target |-> target]
                  THEN ~called[rel] ELSE called[rel]]

\* Either revision of toggleVideoLike can be the one in service.
InitToggle ==
    /\ users = << >>
    /\ issuedBy = << >>
    /\ last = Response("none", 0, 0, NoToken, NoToken)
    /\ calls = NoCalls
    /\ deployed \in {"like.controller", "likeCount"}
    /\ likes = {}
    /\ subscriptions = {}
    /\ videos = [v \in ExistingVideos |-> [likeCount |-> 0]]
    /\ called = [rel \in Relations |-> FALSE]
    /\ lastToggle = ToggleResponse("none", 0, 0, 0, FALSE, 0)
    /\ NoViews
    /\ NoCrud

ToggleVideoLike ==
    \E userId \in Actors, videoId \in VideoIds \cup {MalformedId} :
        /\ deployed = "like.controller"
        /\ toggleVideoLike(userId, videoId)
        /\ Called("video", userId, videoId)
        /\ UNCHANGED <<authVars, calls, viewVars, crudVars>>

ToggleVideoLikeCount ==
    \E userId \in Actors, videoId \in VideoIds \cup {MalformedId} :
        /\ deployed = "likeCount"
        /\ toggleVideoLikeCount(userId, videoId)
        /\ Called("video", userId, videoId)
        /\ UNCHANGED <<authVars, calls, viewVars, crudVars>>

ToggleCommentLike ==
    \E userId \in Actors, commentId \in CommentIds \cup {MalformedId} :
        /\ toggleCommentLike(userId, commentId)
        /\ Called("comment", userId, commentId)
        /\ UNCHANGED <<authVars, calls, viewVars, crudVars>>

ToggleTweetLike ==
    \E userId \in Actors, tweetId \in TweetIds \cup {MalformedId} :
        /\ toggleTweetLike(userId, tweetId)
        /\ Called("tweet", userId, tweetId)
        /\ UNCHANGED <<authVars, calls, viewVars, crudVars>>

ToggleSubscription ==
    \E subscriberId \in Actors, channelId \in Actors \cup {MalformedId} :
        /\ toggleSubscription(subscriberId, channelId)
        /\ Called("subscription", subscriberId, channelId)
        /\ UNCHANGED <<authVars, calls, viewVars, crudVars>>

NextToggle ==
    \/ ToggleVideoLike
    \/ ToggleVideoLikeCount
    \/ ToggleCommentLike
    \/ ToggleTweetLike
    \/ ToggleSubscription

SpecToggle == InitToggle /\ [][NextToggle]_vars

\* Is the relation present: is there a row for it.
Present(rel) ==
    IF rel.kind = "subscription"
    THEN SubscriptionRows(rel.target, rel.actor) # {}
    ELSE LikeRows(rel.kind, rel.target, rel.actor) # {}

\* The relations on which every toggle call is rejected: a subscription to
\* one's own channel, and, in the like-count revision, a like on a video that
\* does not exist.
Rejected(rel) ==
    \/ rel.kind = "subscription" /\ rel.actor = rel.target
    \/ rel.kind = "video" /\ deployed = "likeCount" /\ rel.target \notin DOMAIN videos

\* The relation the last toggle request named.
LastRelation ==
    [kind |-> CASE lastToggle.op = "toggleCommentLike" -> "comment"
                [] lastToggle.op = "toggleTweetLike" -> "tweet"
                [] lastToggle.op = "toggleSubscription" -> "subscription"
                [] OTHER -> "video",
     actor |-> lastToggle.actor, target |-> lastToggle.target]

C29_ToggleFrame ==
    /\ [][\A rel \in Relations :
             rel # LastRelation' => (Present(rel)' <=> Present(rel))]_vars
    /\ [][/\ \A row \in (likes \ likes') \cup (likes' \ likes) :
                /\ row.likedBy = lastToggle'.actor
                /\ row[LastRelation'.kind] = lastToggle'.target
          /\ \A row \in (subscriptions \ subscriptions') \cup (subscriptions' \ subscriptions) :
                /\ LastRelation'.kind = "subscription"
                /\ row.subscriber = lastToggle'.actor
                /\ row.channel = lastToggle'.target]_vars

\* Actor 1 has just unliked video 1, which actor 2 still likes, while actor 1
\* still likes comment 1 and subscribes to channel 2.
C29_Witness ==
    /\ lastToggle.op \in {"toggleVideoLike", "toggleVideoLikeCount"}
    /\ lastToggle.status = 200
    /\ ~lastToggle.liked
    /\ lastToggle.actor = 1
    /\ lastToggle.target = 1
    /\ ~Present([kind |-> "video", actor |-> 1, target |-> 1])
    /\ Present([kind |-> "video", actor |-> 2, target |-> 1])
    /\ Present([kind |-> "comment", actor |-> 1, target |-> 1])
    /\ Present([kind |-> "subscription", actor |-> 1, target |-> 2])

VideoLikes(videoId) == {row \in likes : row.video = videoId}

\* C14: count conservation.  With the like-count revision in service, after
\* any sequence of video-like toggles the likeCount of every video is the
\* number of Like rows for it, and so is the totalLikes the last toggle
\* returned.
C14_CountConservation ==
    deployed = "likeCount"
    => /\ \A v \in DOMAIN videos : videos[v].likeCount = Cardinality(VideoLikes(v))
       /\ (lastToggle.op = "toggleVideoLikeCount" /\ lastToggle.status = 200)
          => lastToggle.totalLikes = Cardinality(VideoLikes(lastToggle.target))

\* Two actors liked the video and one of them has just unliked it: the toggle
\* returned a totalLikes of 1.
C14_Witness ==
    /\ deployed = "likeCount"
    /\ lastToggle.op = "toggleVideoLikeCount"
    /\ lastToggle.status = 200
    /\ ~lastToggle.liked
    /\ lastToggle.totalLikes = 1
    /\ Cardinality(VideoLikes(lastToggle.target)) = 1

(***************************************************************************)
(* Concurrent toggle requests: the handlers of like.controller.js and      *)
(* toggleSubscription step by step.  A handler runs until its next await:  *)
(* the findOne, and then the findByIdAndDelete or the create.              *)
(***************************************************************************)
LikeKinds == {"video", "comment", "tweet"}

\* A toggle request that has not started.
NewToggle(kind, actor, target) ==
    [pc |-> "start", kind |-> kind, actor |-> actor, target |-> target,
     existing |-> NoRow, status |-> 0]

\* The _id of a row created while requests are in flight: an _id is never
\* used twice, so it differs from the _id of every row a request still holds.
FreshId(rows) ==
    LET taken == {row.id : row \in rows} \cup {inflight[c].existing.id : c \in Callers}
    IN  CHOOSE k \in 1 .. Cardinality(taken) + 1 :
            k \notin taken /\ \A j \in 1 .. k - 1 : j \in taken

\* isValidObjectId and Like.findOne({<kind>: target, likedBy: userId})
LikeFind(c) ==
    LET req == inflight[c]
    IN  /\ req.pc = "start"
        /\ req.kind \in LikeKinds
        /\ inflight' = [inflight EXCEPT ![c] =
                           IF ~isValidObjectId(req.target)
                           THEN [@ EXCEPT !.pc = "done", !.status = 400]
                           ELSE [@ EXCEPT !.pc = "found",
                                          !.existing = findOne(LikeRows(req.kind, req.target,
                                                                        req.actor))]]
        /\ UNCHANGED <<authVars, calls, toggleVars, comments, now, listing, profile, crudVars>>

\* Like.findByIdAndDelete(existingLike._id), or Like.create
LikeWrite(c) ==
    LET req == inflight[c]
    IN  /\ req.pc = "found"
        /\ req.kind \in LikeKinds
        /\ IF req.existing # NoRow
           THEN /\ likes' = likes \ {req.existing}
                /\ inflight' = [inflight EXCEPT ![c] = [@ EXCEPT !.pc = "done", !.status = 200]]
           ELSE /\ likes' = likes \cup
                       {[NewLike(req.kind, req.target, req.actor) EXCEPT
                            !.id = FreshId(LikeRows(req.kind, req.target, req.actor))]}
                /\ inflight' = [inflight EXCEPT ![c] = [@ EXCEPT !.pc = "done", !.status = 201]]
        /\ UNCHANGED <<authVars, calls, deployed, subscriptions, videos, called, lastToggle,
                       comments, now, listing, profile, crudVars>>

\* isValidObjectId, the own-channel check and Subscription.findOne
SubscriptionFind(c) ==
    LET req == inflight[c]
    IN  /\ req.pc = "start"
        /\ req.kind = "subscription"
        /\ inflight' = [inflight EXCEPT ![c] =
                           IF ~isValidObjectId(req.target) \/ req.actor = req.target
                           THEN [@ EXCEPT !.pc = "done", !.status = 400]
                           ELSE [@ EXCEPT !.pc = "found",
                                          !.existing = findOne(SubscriptionRows(req.target,
                                                                                req.actor))]]
        /\ UNCHANGED <<authVars, calls, toggleVars, comments, now, listing, profile, crudVars>>

\* Subscription.findByIdAndDelete(existingSubscription._id), or Subscription.create
SubscriptionWrite(c) ==
    LET req == inflight[c]
    IN  /\ req.pc = "found"
        /\ req.kind = "subscription"
        /\ IF req.existing # NoRow
           THEN /\ subscriptions' = subscriptions \ {req.existing}
                /\ inflight' = [inflight EXCEPT ![c] = [@ EXCEPT !.pc = "done", !.status = 200]]
           ELSE /\ subscriptions' = subscriptions \cup
                       {[NewSubscription(req.target, req.actor) EXCEPT
                            !.id = FreshId(SubscriptionRows(req.target, req.actor))]}
                /\ inflight' = [inflight EXCEPT ![c] = [@ EXCEPT !.pc = "done", !.status = 201]]
        /\ UNCHANGED <<authVars, calls, deployed, likes, videos, called, lastToggle,
                       comments, now, listing, profile, crudVars>>

\* No row yet; every caller is about to send one toggle request.
InitToggleRace ==
    /\ users = << >>
    /\ issuedBy = << >>
    /\ last = Response("none", 0, 0, NoToken, NoToken)
    /\ calls = NoCalls
    /\ NoToggles
    /\ inflight \in [Callers -> {NewToggle(kind, actor, target) :
                                    kind \in LikeKinds \cup {"subscription"},
                                    actor \in Actors, target \in Actors \cup {MalformedId}}]
    /\ comments = {}
    /\ now = 1
    /\ listing = ListingResponse("none", 0, 0, 0, 0, 0, 0, << >>, << >>)
    /\ profile = ProfileResponse(0, "", 0, 0, 0, 0, FALSE)
    /\ NoCrud

NextToggleRace ==
    \/ \E c \in Callers : LikeFind(c)
    \/ \E c \in Callers : LikeWrite(c)
    \/ \E c \in Callers : SubscriptionFind(c)
    \/ \E c \in Callers : SubscriptionWrite(c)

SpecToggleRace == InitToggleRace /\ [][NextToggleRace]_vars

\* C11: there is at most one Like row for an actor and a target, in every
\* state that concurrent toggle requests reach.
C11_OneLikePerPair ==
    \A kind \in LikeKinds, actor \in Actors, target \in Actors :
        Cardinality(LikeRows(kind, target, actor)) <= 1

\* C12: there is at most one Subscription row for a subscriber and a channel,
\* in every state that concurrent toggleSubscription requests reach.
C12_OneSubscriptionPerPair ==
    \A subscriber \in Actors, channel \in Actors :
        Cardinality(SubscriptionRows(channel, subscriber)) <= 1

(***************************************************************************)
(* Comments: the collection, addComment, and the listings getVideoComments *)
(* and getCommentReplies.                                                  *)
(***************************************************************************)
\* A query parameter that was not sent.
Undefined == "undefined"
\* What a client may send as page, limit and isOldest.
PageValues == {Undefined, "0", "2", "2px"}
LimitValues == {Undefined, "0", "1", "101"}
\* The requests of a client that pages through a listing.
PagingPageValues == {Undefined, "2"}
PagingLimitValues == {Undefined, "1", "2"}
OrderValues == {Undefined, "true"}

\* A JavaScript number: an integer, or NaN.
Num(n) == [nan |-> FALSE, v |-> n]
NaN == [nan |-> TRUE, v |-> 0]

\* parseInt, on the strings above: the leading integer of the string.
parseInt(s) ==
    CASE s = "0" -> Num(0)
      [] s = "1" -> Num(1)
      [] s = "2" -> Num(2)
      [] s = "3" -> Num(3)
      [] s = "101" -> Num(101)
      [] s = "2px" -> Num(2)
      [] OTHER -> NaN

\* The conversion of a string to a number by an arithmetic operator: the
\* whole string has to be a number.
ToNumber(s) == IF s = "2px" THEN NaN ELSE parseInt(s)

\* const { page = 1, limit = 10, isOldest } = req.query, and the stages
\* $skip: (page - 1) * parseInt(limit) and $limit: parseInt(limit)
SkipStage(page, limit, defaultLimit) ==
    LET p == IF page = Undefined THEN Num(1) ELSE ToNumber(page)
        l == IF limit = Undefined THEN Num(defaultLimit) ELSE parseInt(limit)
    IN  IF p.nan \/ l.nan THEN NaN ELSE Num((p.v - 1) * l.v)

LimitStage(limit, defaultLimit) ==
    IF limit = Undefined THEN Num(defaultLimit) ELSE parseInt(limit)

\* The server accepts a pipeline whose $skip is a non-negative number and
\* whose $limit is a positive one; otherwise aggregate throws.
PipelineAccepted(skip, take) ==
    /\ ~skip.nan /\ skip.v >= 0
    /\ ~take.nan /\ take.v >= 1

sortOption(isOldest) == IF isOldest = "true" THEN 1 ELSE -1

\* The ways the server may return a set of documents for $sort: {createdAt:
\* direction}: documents with the same createdAt come in any order.
Orderings(docs, direction) ==
    {seq \in [1 .. Cardinality(docs) -> docs] :
        /\ \A i, j \in DOMAIN seq : i # j => seq[i] # seq[j]
        /\ \A i, j \in DOMAIN seq :
              i < j => IF direction = 1
                       THEN seq[i].createdAt <= seq[j].createdAt
                       ELSE seq[i].createdAt >= seq[j].createdAt}

\* $skip and $limit on a sequence.
Slice(seq, skip, take) ==
    LET left == IF Len(seq) > skip THEN Len(seq) - skip ELSE 0
        k == IF take < left THEN take ELSE left
    IN  [i \in 1 .. k |-> seq[skip + i]]

\* $match: {video, parentComment: null}
TopLevel(videoId) ==
    {c \in comments : c.video = videoId /\ c.parentComment = NoId}

\* $match: {parentComment: commentId}
RepliesTo(commentId) == {c \in comments : c.parentComment = commentId}

\* The choices the server may make for the replies of every comment of ids:
\* an order of its replies for each.
RECURSIVE ReplyOrderingsOf(_)
ReplyOrderingsOf(ids) ==
    IF ids = {} THEN {<< >>}
    ELSE LET id == CHOOSE x \in ids : TRUE
         IN  {[x \in ids |-> IF x = id THEN order ELSE rest[x]] :
                 order \in Orderings(RepliesTo(id), -1),
                 rest \in ReplyOrderingsOf(ids \ {id})}

ReplyOrderings == ReplyOrderingsOf({c.id : c \in comments})

\* $lookup from users and the owner projection: the owner's _id and username,
\* absent when there is no such user.
NoOwner == [id |-> NoId, username |-> Blank]
OwnerOf(c) ==
    IF c.owner \in UserIds
    THEN [id |-> c.owner, username |-> users[c.owner].username]
    ELSE NoOwner

\* $lookup from likes on comment, with likeCount and isLiked
CommentLikes(commentId) == {row \in likes : row.comment = commentId}
\* Mutant: isLiked tells whether anyone likes the comment.
IsLikedByAnyone(viewer, commentId) == CommentLikes(commentId) # {}

IsLikedBy(viewer, commentId) == \E row \in CommentLikes(commentId) : row.likedBy = viewer

\* An entry of the replies preview of getVideoComments.
PreviewEntry(reply, viewer) ==
    [id |-> reply.id, content |-> reply.content, createdAt |-> reply.createdAt,
     likeCount |-> Cardinality(CommentLikes(reply.id)),
     isLiked |-> IsLikedBy(viewer, reply.id), owner |-> OwnerOf(reply)]

\* Mutant: replyCount counts the replies of the preview.
CommentEntryCountsPreview(c, viewer, sortedReplies) ==
    LET preview == Slice(sortedReplies, 0, 2)
    IN  [id |-> c.id, content |-> c.content, createdAt |-> c.createdAt,
         likeCount |-> Cardinality(CommentLikes(c.id)),
         isLiked |-> IsLikedBy(viewer, c.id),
         replyCount |-> Len(preview),
         replies |-> [i \in DOMAIN preview |-> PreviewEntry(preview[i], viewer)],
         owner |-> OwnerOf(c), video |-> c.video]

\* An entry of getVideoComments; sortedReplies is the order the server gave
\* to the comment's replies.
CommentEntry(c, viewer, sortedReplies) ==
    LET preview == Slice(sortedReplies, 0, 2)
    IN  [id |-> c.id, content |-> c.content, createdAt |-> c.createdAt,
         likeCount |-> Cardinality(CommentLikes(c.id)),
         isLiked |-> IsLikedBy(viewer, c.id),
         replyCount |-> Cardinality(RepliesTo(c.id)),
         replies |-> [i \in DOMAIN preview |-> PreviewEntry(preview[i], viewer)],
         owner |-> OwnerOf(c), video |-> c.video]

\* An entry of getCommentReplies.
ReplyEntry(reply) ==
    [id |-> reply.id, content |-> reply.content, createdAt |-> reply.createdAt,
     owner |-> OwnerOf(reply)]

\* getVideoComments; sorted and replySorted are the orders the server gave to
\* the matched comments and to the replies of each.
getVideoComments(videoId, viewer, page, limit, isOldest, sorted, replySorted) ==
    LET skip == SkipStage(page, limit, 10)
        take == LimitStage(limit, 10)
        annotated == [i \in DOMAIN sorted |->
                         CommentEntry(sorted[i], viewer, replySorted[sorted[i].id])]
    IN  IF ~isValidObjectId(videoId)
        THEN ListingResponse("getVideoComments", 400, videoId, viewer, skip, take,
                             sortOption(isOldest), << >>, << >>)
        ELSE IF ~PipelineAccepted(skip, take)
        THEN ListingResponse("getVideoComments", 500, videoId, viewer, skip, take,
                             sortOption(isOldest), << >>, << >>)
        ELSE ListingResponse("getVideoComments", 200, videoId, viewer, skip, take,
                             sortOption(isOldest), Slice(annotated, skip.v, take.v), << >>)

\* getCommentReplies; sorted is the order the server gave to the replies.
getCommentReplies(commentId, viewer, page, limit, sorted) ==
    LET skip == SkipStage(page, limit, 2)
        take == LimitStage(limit, 2)
        projected == [i \in DOMAIN sorted |-> ReplyEntry(sorted[i])]
    IN  IF ~isValidObjectId(commentId)
        THEN ListingResponse("getCommentReplies", 400, commentId, viewer, skip, take,
                             -1, << >>, << >>)
        ELSE IF ~PipelineAccepted(skip, take)
        THEN ListingResponse("getCommentReplies", 500, commentId, viewer, skip, take,
                             -1, << >>, << >>)
        ELSE ListingResponse("getCommentReplies", 200, commentId, viewer, skip, take,
                             -1, Slice(projected, skip.v, take.v), << >>)

\* addComment: createdAt is the time of the create.
addComment(userId, videoId, content, parentComment, createdAt) ==
    IF \/ ~isValidObjectId(videoId)
       \/ parentComment # NoId /\ ~isValidObjectId(parentComment)
       \/ content = Blank
    THEN UNCHANGED <<comments, now, commentsCreated>>
    ELSE /\ comments' = comments \cup
                {[id |-> commentsCreated + 1, content |-> content,
                  video |-> videoId, owner |-> userId,
                  parentComment |-> parentComment, createdAt |-> createdAt]}
         /\ now' = createdAt
         /\ commentsCreated' = commentsCreated + 1

\* Two registered accounts, each holding the refresh token of its
\* registration.
TwoAccounts ==
    /\ users = <<[username |-> "al", email |-> "x@m",
                  password |-> [base |-> "p", depth |-> 1],
                  refreshToken |-> [uid |-> 1, n |-> 1]],
                 [username |-> "bo", email |-> "y@m",
                  password |-> [base |-> "q", depth |-> 1],
                  refreshToken |-> [uid |-> 2, n |-> 1]]>>
    /\ issuedBy = <<<<"register">>, <<"register">>>>
    /\ last = Response("none", 0, 0, NoToken, NoToken)

\* The ids of the entries of a page.
EntryIds(entries) == [i \in DOMAIN entries |-> entries[i].id]

\* The pages of the run of consecutive page requests that the response res to
\* a request for the given page continues or starts.
PagesWith(res, page) ==
    LET p == IF page = Undefined THEN Num(1) ELSE ToNumber(page)
    IN  IF res.status # 200 \/ p.nan THEN << >>
        ELSE IF p.v = 1 THEN <<EntryIds(res.entries)>>
        ELSE IF /\ listing.pages # << >>
                /\ p.v = Len(listing.pages) + 1
                /\ listing.op = res.op
                /\ listing.target = res.target
                /\ listing.take = res.take
                /\ listing.sortOption = res.sortOption
        THEN Append(listing.pages, EntryIds(res.entries))
        ELSE << >>

\* The authenticated users who write comments.
Commenters == {1}

InitComments ==
    /\ TwoAccounts
    /\ calls = NoCalls
    /\ NoToggles
    /\ NoViews
    /\ NoCrud

AddComment ==
    \E userId \in Commenters, videoId \in {1}, content \in {"c", Blank},
       parentComment \in {c.id : c \in comments} \cup {NoId, MalformedId},
       createdAt \in {now, now + 1} :
        /\ Cardinality(comments) < MaxComments
        /\ addComment(userId, videoId, content, parentComment, createdAt)
        /\ listing' = [listing EXCEPT !.pages = << >>]
        /\ UNCHANGED <<authVars, calls, toggleVars, inflight, profile, playlists,
                       lastPlaylist, lastComment, tweets, stats>>

ListComments ==
    \E videoId \in {1}, viewer \in Commenters, page \in PagingPageValues,
       limit \in PagingLimitValues, isOldest \in OrderValues :
        \E sorted \in Orderings(TopLevel(videoId), sortOption(isOldest)),
           replySorted \in ReplyOrderings :
            LET res == getVideoComments(videoId, viewer, page, limit, isOldest,
                                        sorted, replySorted)
            IN  /\ listing' = [res EXCEPT !.pages = PagesWith(res, page)]
                /\ UNCHANGED <<authVars, calls, toggleVars, inflight, comments, now, profile,
                               crudVars>>

ListReplies ==
    \E commentId \in {c.id : c \in comments}, viewer \in Commenters,
       page \in PagingPageValues, limit \in {Undefined, "1"} :
        \E sorted \in Orderings(RepliesTo(commentId), -1) :
            LET res == getCommentReplies(commentId, viewer, page, limit, sorted)
            IN  /\ listing' = [res EXCEPT !.pages = PagesWith(res, page)]
                /\ UNCHANGED <<authVars, calls, toggleVars, inflight, comments, now, profile,
                               crudVars>>

NextComments ==
    \/ AddComment
    \/ ListComments
    \/ ListReplies

SpecComments == InitComments /\ [][NextComments]_vars

(***************************************************************************)
(* The listings over a stored thread, with every query a client can send.  *)
(***************************************************************************)
\* A comment document.
Comment(id, videoId, owner, parentComment, createdAt) ==
    [id |-> id, content |-> "c", video |-> videoId, owner |-> owner,
     parentComment |-> parentComment, createdAt |-> createdAt]

\* A thread as addComment leaves it: comment 1 on video 1 with the replies 2,
\* 3 and 4, a second comment 5 on video 1 and a comment 6 on video 2, created
\* in this order; gap[i] tells whether the clock moved before comment i.
StoredThread(gap) ==
    LET at(i) == 1 + Cardinality({j \in 2 .. i : gap[j]})
    IN  {Comment(1, 1, 1, NoId, at(1)), Comment(2, 1, 2, 1, at(2)),
         Comment(3, 1, 1, 1, at(3)), Comment(4, 1, 2, 1, at(4)),
         Comment(5, 1, 2, NoId, at(5)), Comment(6, 2, 1, NoId, at(6))}

InitListing ==
    /\ TwoAccounts
    /\ calls = NoCalls
    /\ NoToggles
    /\ inflight = << >>
    /\ \E gap \in [2 .. 6 -> BOOLEAN] :
          /\ gap[6]
          /\ comments = StoredThread(gap)
          /\ now = 1 + Cardinality({j \in 2 .. 6 : gap[j]})
    /\ listing = ListingResponse("none", 0, 0, 0, 0, 0, 0, << >>, << >>)
    /\ profile = ProfileResponse(0, "", 0, 0, 0, 0, FALSE)
    /\ NoCrud

ListCommentsAnyQuery ==
    \E videoId \in VideoIds \cup {MalformedId}, viewer \in {2}, page \in PageValues,
       limit \in LimitValues, isOldest \in OrderValues :
        \E sorted \in Orderings(TopLevel(videoId), sortOption(isOldest)),
           replySorted \in ReplyOrderings :
            /\ listing' = getVideoComments(videoId, viewer, page, limit, isOldest,
                                           sorted, replySorted)
            /\ UNCHANGED <<authVars, calls, toggleVars, inflight, comments, now, profile, crudVars>>

ListRepliesAnyQuery ==
    \E commentId \in {1, 5, MalformedId}, viewer \in {2}, page \in PageValues,
       limit \in LimitValues :
        \E sorted \in Orderings(RepliesTo(commentId), -1) :
            /\ listing' = getCommentReplies(commentId, viewer, page, limit, sorted)
            /\ UNCHANGED <<authVars, calls, toggleVars, inflight, comments, now, profile, crudVars>>

NextListing ==
    \/ ListCommentsAnyQuery
    \/ ListRepliesAnyQuery

SpecListing == InitListing /\ [][NextListing]_vars

(***************************************************************************)
(* Properties of the listings.                                             *)
(***************************************************************************)
\* The comment with the id.
ById(id) == CHOOSE c \in comments : c.id = id

RECURSIVE Concat(_)
Concat(seqs) == IF seqs = << >> THEN << >> ELSE Head(seqs) \o Concat(Tail(seqs))

\* C15: pagination completeness.  When the pages 1 .. ceil(K / pageSize) of
\* getVideoComments were requested with the same pageSize < K and direction
\* and no write between them, their concatenation holds the ids of the K
\* top-level comments of the video, each once, in the order of createdAt in
\* the requested direction.
C15_PaginationComplete ==
    LET top == TopLevel(listing.target)
        K == Cardinality(top)
        pageSize == listing.take.v
        all == Concat(listing.pages)
    IN  (/\ listing.op = "getVideoComments"
         /\ listing.status = 200
         /\ pageSize < K
         /\ Len(listing.pages) * pageSize >= K
         /\ (Len(listing.pages) - 1) * pageSize < K)
        => /\ Len(all) = K
           /\ {all[i] : i \in DOMAIN all} = {c.id : c \in top}
           /\ \A i, j \in DOMAIN all :
                 i < j => IF listing.sortOption = 1
                          THEN ById(all[i]).createdAt <= ById(all[j]).createdAt
                          ELSE ById(all[i]).createdAt >= ById(all[j]).createdAt

\* The replies preview and the replyCount of an entry are those of its
\* comment.
PreviewOf(entry) ==
    LET replies == RepliesTo(entry.id)
        shown == {entry.replies[i].id : i \in DOMAIN entry.replies}
    IN  /\ entry.replyCount = Cardinality(replies)
        /\ Len(entry.replies) = IF Cardinality(replies) < 2 THEN Cardinality(replies) ELSE 2
        /\ Cardinality(shown) = Len(entry.replies)
        /\ shown \subseteq {r.id : r \in replies}
        /\ \A i \in DOMAIN entry.replies :
              entry.replies[i].createdAt = ById(entry.replies[i].id).createdAt
        /\ \A i, j \in DOMAIN entry.replies :
              i < j => entry.replies[i].createdAt >= entry.replies[j].createdAt
        /\ \A r \in replies :
              r.id \notin shown
              => \A i \in DOMAIN entry.replies : r.createdAt <= entry.replies[i].createdAt

\* C16: for every entry of getVideoComments, replyCount is the number of
\* comments whose parent is the entry's comment, and the preview holds
\* min(2, replyCount) of them, none older than a reply left out, the more
\* recent first (so a reply created later than another comes before it).
C16_ReplyPreview ==
    (listing.op = "getVideoComments" /\ listing.status = 200)
    => \A i \in DOMAIN listing.entries : PreviewOf(listing.entries[i])

\* A comment with three replies is listed with a replyCount of 3 and a
\* preview of the two most recent, the more recent first.
C16_Witness ==
    /\ listing.op = "getVideoComments"
    /\ listing.status = 200
    /\ \E i \in DOMAIN listing.entries :
          LET entry == listing.entries[i]
          IN  /\ entry.replyCount = 3
              /\ Len(entry.replies) = 2
              /\ entry.replies[1].createdAt > entry.replies[2].createdAt
              /\ \E r \in RepliesTo(entry.id) : r.createdAt < entry.replies[2].createdAt

\* C18: every entry of getCommentReplies has the shape of an entry of the
\* replies preview of getVideoComments, with the owner, the like count and
\* the viewer's isLiked, and the entries come the more recent first.
C18_RepliesLikePreview ==
    (listing.op = "getCommentReplies" /\ listing.status = 200)
    => /\ \A i \in DOMAIN listing.entries :
             /\ {"owner", "likeCount", "isLiked"} \subseteq DOMAIN listing.entries[i]
             /\ listing.entries[i] = PreviewEntry(ById(listing.entries[i].id), listing.viewer)
       /\ \A i, j \in DOMAIN listing.entries :
             i < j => listing.entries[i].createdAt >= listing.entries[j].createdAt

\* C20: whatever page and limit a listing request carries, the $skip of its
\* pipeline is a non-negative number and its $limit is a number that is at
\* least 1.
C20_PaginationClamped ==
    (listing.op \in {"getVideoComments", "getCommentReplies"} /\ listing.status # 400)
    => /\ ~listing.skip.nan /\ listing.skip.v >= 0
       /\ ~listing.take.nan /\ listing.take.v >= 1

(***************************************************************************)
(* Likes on the comments of a stored thread, and the listing that reports  *)
(* them.                                                                   *)
(***************************************************************************)
\* Comment 1 on video 1 and its reply 2.
InitCommentLikes ==
    /\ TwoAccounts
    /\ calls = NoCalls
    /\ NoToggles
    /\ inflight = << >>
    /\ comments = {Comment(1, 1, 1, NoId, 1), Comment(2, 1, 2, 1, 2)}
    /\ now = 2
    /\ listing = ListingResponse("none", 0, 0, 0, 0, 0, 0, << >>, << >>)
    /\ profile = ProfileResponse(0, "", 0, 0, 0, 0, FALSE)
    /\ NoCrud

ToggleLikeOfComment ==
    \E userId \in Actors, commentId \in {c.id : c \in comments} :
        /\ toggleCommentLike(userId, commentId)
        /\ Called("comment", userId, commentId)
        /\ UNCHANGED <<authVars, calls, viewVars, crudVars>>

ListCommentsAsViewer ==
    \E viewer \in Actors :
        \E sorted \in Orderings(TopLevel(1), -1), replySorted \in ReplyOrderings :
            /\ listing' = getVideoComments(1, viewer, Undefined, Undefined, Undefined,
                                           sorted, replySorted)
            /\ UNCHANGED <<authVars, calls, toggleVars, inflight, comments, now, profile, crudVars>>

NextCommentLikes ==
    \/ ToggleLikeOfComment
    \/ ListCommentsAsViewer

SpecCommentLikes == InitCommentLikes /\ [][NextCommentLikes]_vars

\* The likeCount and isLiked of an entry (of a comment or of a preview) are
\* those of its comment for the viewer.
LikesOf(entry, viewer) ==
    /\ entry.likeCount = Cardinality(CommentLikes(entry.id))
    /\ entry.isLiked <=> \E row \in likes : row.comment = entry.id /\ row.likedBy = viewer

\* C17: every entry and every preview reply that getVideoComments returns
\* carries the number of Like rows of its comment and tells whether the viewer
\* is the actor of one of them; and a like toggle by an actor on a comment
\* flips whether the actor likes it and changes its number of Like rows by
\* one, which the next listing reports.
C17_ListedLikes ==
    /\ [][(listing' # listing /\ listing'.op = "getVideoComments" /\ listing'.status = 200)
          => \A i \in DOMAIN listing'.entries :
                /\ LikesOf(listing'.entries[i], listing'.viewer)
                /\ \A k \in DOMAIN listing'.entries[i].replies :
                      LikesOf(listing'.entries[i].replies[k], listing'.viewer)]_vars
    /\ [][\A u \in Actors, c \in {x.id : x \in comments} :
             toggleCommentLike(u, c)
             => /\ lastToggle'.liked <=> ~(\E row \in likes : row.comment = c /\ row.likedBy = u)
                /\ (\E row \in likes' : row.comment = c /\ row.likedBy = u) <=> lastToggle'.liked
                /\ Cardinality(CommentLikes(c)') =
                       IF lastToggle'.liked THEN Cardinality(CommentLikes(c)) + 1
                       ELSE Cardinality(CommentLikes(c)) - 1]_vars

\* The viewer has just liked comment 1, which the other actor likes too, and
\* the listing reports it with a likeCount of 2 and isLiked, and its reply,
\* liked by the other actor alone, with a likeCount of 1 and not isLiked.
C17_Witness ==
    /\ lastToggle.op = "toggleCommentLike"
    /\ lastToggle.liked
    /\ lastToggle.target = 1
    /\ listing.op = "getVideoComments"
    /\ listing.status = 200
    /\ listing.viewer = lastToggle.actor
    /\ Len(listing.entries) = 1
    /\ listing.entries[1].likeCount = 2
    /\ listing.entries[1].isLiked
    /\ Cardinality(CommentLikes(1)) = 2
    /\ Len(listing.entries[1].replies) = 1
    /\ listing.entries[1].replies[1].likeCount = 1
    /\ ~listing.entries[1].replies[1].isLiked
    /\ Cardinality(CommentLikes(2)) = 1

(***************************************************************************)
(* The channel profile and the subscriptions it reports.                   *)
(***************************************************************************)
\* What a profile request may name: the usernames of the two accounts, one
\* of them in capitals, a username of no account, and a username of spaces.
ChannelUsernames == {"al", "AL", "bo", "zed", " "}

\* String.prototype.trim on these usernames.
trim(s) == IF s = " " THEN Blank ELSE s

\* $match {username}: the accounts whose stored username is the given one.
ChannelsNamed(username) == {u \in UserIds : users[u].username = username}

\* Mutant: the username of the request is matched as it was sent.
getUserChannelProfileAsSent(username, viewer) ==
    LET channel == ChannelsNamed(username)
    IN  IF trim(username) = Blank
        THEN ProfileResponse(400, username, viewer, 0, 0, 0, FALSE)
        ELSE IF channel = {}
        THEN ProfileResponse(404, username, viewer, 0, 0, 0, FALSE)
        ELSE LET id == CHOOSE u \in channel : TRUE
                 subscribers == {row \in subscriptions : row.channel = id}
                 subscribedTo == {row \in subscriptions : row.subscriber = id}
             IN  ProfileResponse(200, username, viewer, id, Cardinality(subscribers),
                                 Cardinality(subscribedTo),
                                 viewer \in {row.subscriber : row \in subscribers})

getUserChannelProfile(username, viewer) ==
    LET channel == ChannelsNamed(toLowerCase(username))
    IN  IF trim(username) = Blank
        THEN ProfileResponse(400, username, viewer, 0, 0, 0, FALSE)
        ELSE IF channel = {}
        THEN ProfileResponse(404, username, viewer, 0, 0, 0, FALSE)
        ELSE LET id == CHOOSE u \in channel : TRUE
                 subscribers == {row \in subscriptions : row.channel = id}
                 subscribedTo == {row \in subscriptions : row.subscriber = id}
             IN  ProfileResponse(200, username, viewer, id, Cardinality(subscribers),
                                 Cardinality(subscribedTo),
                                 viewer \in {row.subscriber : row \in subscribers})

InitChannel ==
    /\ TwoAccounts
    /\ calls = NoCalls
    /\ NoToggles
    /\ NoViews
    /\ NoCrud

GetUserChannelProfile ==
    \E username \in ChannelUsernames, viewer \in Actors :
        /\ profile' = getUserChannelProfile(username, viewer)
        /\ UNCHANGED <<authVars, calls, toggleVars, inflight, comments, now, listing, crudVars>>

NextChannel ==
    \/ ToggleSubscription
    \/ GetUserChannelProfile

SpecChannel == InitChannel /\ [][NextChannel]_vars

\* The accounts that have a username, whatever the case of its letters.
ChannelAccounts(username) ==
    {u \in UserIds : toLowerCase(users[u].username) = toLowerCase(username)}

\* The profile an account is to have for a viewer.
ProfileOf(p, id) ==
    /\ p.status = 200
    /\ p.id = id
    /\ p.subscribersCount = Cardinality({row \in subscriptions : row.channel = id})
    /\ p.subscribedToCount = Cardinality({row \in subscriptions : row.subscriber = id})
    /\ p.isSubscribed <=> SubscriptionRows(id, p.viewer) # {}

\* C19 as stated: every profile request for a username that no account has
\* fails with 404, and every other one returns the counts of the Subscription
\* rows of the account and whether the viewer subscribes to it.
C19_ProfileAsStated ==
    [][profile' # profile
       => IF ChannelAccounts(profile'.username) = {}
          THEN profile'.status = 404
          ELSE \E id \in ChannelAccounts(profile'.username) : ProfileOf(profile', id)]_vars

\* C19, amended: a profile request whose username is blank once trimmed fails
\* with 400; any other for a username that no account has, whatever the case
\* of its letters, fails with 404; and every other one returns the counts of
\* the Subscription rows of the account as channel and as subscriber, and
\* isSubscribed exactly when the viewer has a Subscription row to it.
C19_ChannelProfile ==
    [][profile' # profile
       => IF trim(profile'.username) = Blank
          THEN profile'.status = 400
          ELSE IF ChannelAccounts(profile'.username) = {}
          THEN profile'.status = 404
          ELSE \E id \in ChannelAccounts(profile'.username) : ProfileOf(profile', id)]_vars

\* Actor 2 has just subscribed to account 1 and the profile requested for
\* "AL" reports one subscriber, no subscription of its own and isSubscribed.
C19_Witness ==
    /\ lastToggle.op = "toggleSubscription"
    /\ lastToggle.status = 201
    /\ lastToggle.actor = 2
    /\ lastToggle.target = 1
    /\ Cardinality(subscriptions) = 1
    /\ profile.status = 200
    /\ profile.username = "AL"
    /\ profile.viewer = 2
    /\ profile.id = 1
    /\ profile.subscribersCount = 1
    /\ profile.subscribedToCount = 0
    /\ profile.isSubscribed

(***************************************************************************)
(* The read operations over stored rows: the comment listings, the channel *)
(* stats and the liked videos.                                             *)
(***************************************************************************)
\* The uploader of every stored video is account 1.
VideoOwner(videoId) == 1

\* A Like row as a toggle creates it.
LikeOf(kind, target, userId) ==
    [[video |-> NoId, comment |-> NoId, tweet |-> NoId, likedBy |-> userId, id |-> 1]
        EXCEPT ![kind] = target]

\* A Tweet row as createTweet creates it.
Tweet(id, owner) == [id |-> id, owner |-> owner, content |-> "t"]

\* Mutant: a count of zero is taken for a failed count.
getChannelStatsNoRows(userId) ==
    LET totalVideos == Cardinality({v \in DOMAIN videos : VideoOwner(v) = userId})
        totalSubscribers == Cardinality({row \in subscriptions : row.channel = userId})
        totalTweets == Cardinality({t \in tweets : t.owner = userId})
    IN  IF totalVideos = 0 \/ totalSubscribers = 0 \/ totalTweets = 0
        THEN StatsResponse("getChannelStats", 500, userId, 0, 0, 0, {})
        ELSE StatsResponse("getChannelStats", 200, userId, totalVideos, totalSubscribers,
                           totalTweets, {})

\* countDocuments returns a number, never null.
getChannelStats(userId) ==
    LET totalVideos == Cardinality({v \in DOMAIN videos : VideoOwner(v) = userId})
        totalSubscribers == Cardinality({row \in subscriptions : row.channel = userId})
        totalTweets == Cardinality({t \in tweets : t.owner = userId})
    IN  StatsResponse("getChannelStats", 200, userId, totalVideos, totalSubscribers,
                      totalTweets, {})

\* Like.find({likedBy, video: {$exists: true}})
getLikedVideos(userId) ==
    StatsResponse("getLikedVideos", 200, userId, 0, 0, 0,
                  {row \in likes : row.likedBy = userId /\ row.video # NoId})

\* The rows that earlier requests have stored: likes of video 1 and of
\* comment 1, subscriptions between the two accounts, a tweet of account 1,
\* and no comment, one comment on video 1, or that comment and a reply.
InitReads ==
    /\ TwoAccounts
    /\ calls = NoCalls
    /\ deployed = "like.controller"
    /\ likes \in SUBSET {LikeOf("video", 1, 1), LikeOf("video", 1, 2), LikeOf("comment", 1, 1)}
    /\ subscriptions \in SUBSET {[subscriber |-> 1, channel |-> 2, id |-> 1],
                                 [subscriber |-> 2, channel |-> 1, id |-> 1]}
    /\ videos = [v \in ExistingVideos |-> [likeCount |-> 0]]
    /\ called = [rel \in Relations |-> FALSE]
    /\ lastToggle = ToggleResponse("none", 0, 0, 0, FALSE, 0)
    /\ inflight = << >>
    /\ comments \in {{}, {Comment(1, 1, 1, NoId, 1)},
                     {Comment(1, 1, 1, NoId, 1), Comment(2, 1, 2, 1, 2)}}
    /\ now = 2
    /\ listing = ListingResponse("none", 0, 0, 0, 0, 0, 0, << >>, << >>)
    /\ profile = ProfileResponse(0, "", 0, 0, 0, 0, FALSE)
    /\ playlists = {}
    /\ lastPlaylist = PlaylistResponse("none", 0, 0, 0)
    /\ lastComment = CommentResponse("none", 0, 0, 0)
    /\ commentsCreated = Cardinality(comments)
    /\ tweets \in SUBSET {Tweet(1, 1)}
    /\ stats = StatsResponse("none", 0, 0, 0, 0, 0, {})

ReadComments ==
    \E videoId \in VideoIds, viewer \in Actors :
        \E sorted \in Orderings(TopLevel(videoId), -1), replySorted \in ReplyOrderings :
            /\ listing' = getVideoComments(videoId, viewer, Undefined, Undefined, Undefined,
                                           sorted, replySorted)
            /\ UNCHANGED <<authVars, calls, toggleVars, inflight, comments, now, profile,
                           crudVars>>

ReadReplies ==
    \E commentId \in {1, 2}, viewer \in Actors :
        \E sorted \in Orderings(RepliesTo(commentId), -1) :
            /\ listing' = getCommentReplies(commentId, viewer, Undefined, Undefined, sorted)
            /\ UNCHANGED <<authVars, calls, toggleVars, inflight, comments, now, profile,
                           crudVars>>

GetChannelStats ==
    \E userId \in Actors :
        /\ stats' = getChannelStats(userId)
        /\ UNCHANGED <<authVars, calls, toggleVars, viewVars, playlists, lastPlaylist,
                       lastComment, commentsCreated, tweets>>

GetLikedVideos ==
    \E userId \in Actors :
        /\ stats' = getLikedVideos(userId)
        /\ UNCHANGED <<authVars, calls, toggleVars, viewVars, playlists, lastPlaylist,
                       lastComment, commentsCreated, tweets>>

NextReads ==
    \/ ReadComments
    \/ ReadReplies
    \/ GetChannelStats
    \/ GetLikedVideos

SpecReads == InitReads /\ [][NextReads]_vars

\* C21: a listing of the comments of a video or of the replies of a comment
\* whose id is well formed answers 200, with an empty page when the video has
\* no top-level comment or the comment no reply; getLikedVideos answers 200,
\* with an empty list when the caller likes no video; and getChannelStats
\* answers 200 with the three counts of the caller's rows, each zero when
\* there is no such row.
C21_EmptyIsNotAnError ==
    /\ (listing.op = "getVideoComments" /\ isValidObjectId(listing.target))
       => /\ listing.status = 200
          /\ TopLevel(listing.target) = {} => listing.entries = << >>
    /\ (listing.op = "getCommentReplies" /\ isValidObjectId(listing.target))
       => /\ listing.status = 200
          /\ RepliesTo(listing.target) = {} => listing.entries = << >>
    /\ stats.op = "getLikedVideos"
       => /\ stats.status = 200
          /\ (\A row \in likes : row.likedBy = stats.caller => row.video = NoId)
             => stats.likedVideos = {}
    /\ stats.op = "getChannelStats"
       => /\ stats.status = 200
          /\ stats.totalVideos = Cardinality({v \in DOMAIN videos : VideoOwner(v) = stats.caller})
          /\ stats.totalSubscribers =
                 Cardinality({row \in subscriptions : row.channel = stats.caller})
          /\ stats.totalTweets = Cardinality({t \in tweets : t.owner = stats.caller})

\* Account 2, with no video, no subscriber and no tweet, was answered three
\* zero counts, and the listing of video 2, which has no comment, was
\* answered an empty page.
C21_Witness ==
    /\ stats.op = "getChannelStats"
    /\ stats.status = 200
    /\ stats.caller = 2
    /\ stats.totalVideos = 0
    /\ stats.totalSubscribers = 0
    /\ stats.totalTweets = 0
    /\ likes # {}
    /\ listing.op = "getVideoComments"
    /\ listing.target = 2
    /\ listing.status = 200
    /\ listing.entries = << >>

(***************************************************************************)
(* Editing and deleting comments, and the threads that result.             *)
(***************************************************************************)
\* findByIdAndUpdate({_id, owner}, {$set: {content}}): the first argument is
\* the id, and the document given for it is cast to its _id, so that the
\* comment is found by its id alone.
updateComment(userId, commentId, content) ==
    LET op == "updateComment"
        found == {c \in comments : c.id = commentId}
    IN  IF ~isValidObjectId(commentId) \/ content = Blank
        THEN /\ lastComment' = CommentResponse(op, 400, userId, commentId)
             /\ UNCHANGED comments
        ELSE IF found = {}
        THEN /\ lastComment' = CommentResponse(op, 500, userId, commentId)
             /\ UNCHANGED comments
        ELSE /\ comments' = {IF c \in found THEN [c EXCEPT !.content = content] ELSE c :
                                c \in comments}
             /\ lastComment' = CommentResponse(op, 200, userId, commentId)

\* findOneAndDelete({_id, owner})
deleteComment(userId, commentId) ==
    LET op == "deleteComment"
        found == {c \in comments : c.id = commentId /\ c.owner = userId}
    IN  IF ~isValidObjectId(commentId)
        THEN /\ lastComment' = CommentResponse(op, 400, userId, commentId)
             /\ UNCHANGED comments
        ELSE IF found = {}
        THEN /\ lastComment' = CommentResponse(op, 500, userId, commentId)
             /\ UNCHANGED comments
        ELSE /\ comments' = comments \ found
             /\ lastComment' = CommentResponse(op, 200, userId, commentId)

\* The ids a request may name for a comment: those of the comments created
\* so far or yet to be created.
NamedCommentIds == 1 .. MaxComments

InitThread ==
    /\ TwoAccounts
    /\ calls = NoCalls
    /\ NoToggles
    /\ NoViews
    /\ NoCrud

PostComment ==
    \E userId \in Commenters, videoId \in VideoIds,
       parentComment \in NamedCommentIds \cup {NoId} :
        /\ commentsCreated < MaxComments
        /\ addComment(userId, videoId, "c", parentComment, now + 1)
        /\ UNCHANGED <<authVars, calls, toggleVars, inflight, listing, profile, playlists,
                       lastPlaylist, lastComment, tweets, stats>>

UpdateComment ==
    \E userId \in Actors, commentId \in NamedCommentIds \cup {MalformedId},
       content \in {"d", Blank} :
        /\ updateComment(userId, commentId, content)
        /\ UNCHANGED <<authVars, calls, toggleVars, inflight, now, listing, profile,
                       playlists, lastPlaylist, commentsCreated, tweets, stats>>

DeleteComment ==
    \E userId \in Actors, commentId \in NamedCommentIds \cup {MalformedId} :
        /\ deleteComment(userId, commentId)
        /\ UNCHANGED <<authVars, calls, toggleVars, inflight, now, listing, profile,
                       playlists, lastPlaylist, commentsCreated, tweets, stats>>

NextThread ==
    \/ PostComment
    \/ UpdateComment
    \/ DeleteComment

SpecThread == InitThread /\ [][NextThread]_vars

\* C22: updateComment with a content and deleteComment, called for a stored
\* comment by an account that does not own it, answer 403 and leave every
\* comment as it was.
C22_OwnerOnlyEdit ==
    [][\A u \in Actors : \A c \in comments :
          (c.owner # u /\ (updateComment(u, c.id, "d") \/ deleteComment(u, c.id)))
          => /\ lastComment'.status = 403
             /\ comments' = comments]_vars

\* C24: every stored comment that has a parent has it among the stored
\* comments, where the parent has no parent itself and is on the same video.
C24_TwoLevelThread ==
    \A c \in comments :
        c.parentComment # NoId
        => \E p \in comments :
              /\ p.id = c.parentComment
              /\ p.parentComment = NoId
              /\ p.video = c.video

(***************************************************************************)
(* Requests that fail after their first write: the store rejects the save  *)
(* that follows.                                                           *)
(***************************************************************************)
\* registerUser when generateAccessAndRefreshToken throws: User.create has
\* stored the account, the token is not saved and the request answers 500.
registerUserTokensFail(username, email, password, avatarOk) ==
    LET doc == [username |-> toLowerCase(username), email |-> toLowerCase(email),
                password |-> [base |-> password, depth |-> 0],
                refreshToken |-> NoToken]
        created == preSave(doc, TRUE)
    IN  IF username = Blank \/ email = Blank \/ password = Blank
        THEN /\ last' = Response("register", 400, 0, NoToken, NoToken)
             /\ UNCHANGED <<users, issuedBy>>
        ELSE IF findOneUser(username, email) # 0
        THEN /\ last' = Response("register", 409, 0, NoToken, NoToken)
             /\ UNCHANGED <<users, issuedBy>>
        ELSE IF ~avatarOk
        THEN /\ last' = Response("register", 400, 0, NoToken, NoToken)
             /\ UNCHANGED <<users, issuedBy>>
        ELSE IF UniqueIndexRejects(created)
        THEN /\ last' = Response("register", 500, 0, NoToken, NoToken)
             /\ UNCHANGED <<users, issuedBy>>
        ELSE /\ users' = Append(users, created)
             /\ issuedBy' = Append(issuedBy, << >>)
             /\ last' = Response("register", 500, 0, NoToken, NoToken)

\* toggleVideoLike of the like-count revision when video.save() is rejected:
\* the Like row is deleted or created, the like count is not stored and the
\* request answers 500.
toggleVideoLikeCountSaveFails(userId, videoId) ==
    LET existingLike == findOne(LikeRows("video", videoId, userId))
        op == "toggleVideoLikeCount"
    IN  /\ IF ~isValidObjectId(videoId)
           THEN /\ lastToggle' = ToggleResponse(op, userId, videoId, 400, FALSE, 0)
                /\ UNCHANGED likes
           ELSE IF videoId \notin DOMAIN videos
           THEN /\ lastToggle' = ToggleResponse(op, userId, videoId, 404, FALSE, 0)
                /\ UNCHANGED likes
           ELSE IF existingLike # NoRow
           THEN /\ likes' = likes \ {existingLike}
                /\ lastToggle' = ToggleResponse(op, userId, videoId, 500, FALSE, 0)
           ELSE /\ likes' = likes \cup {NewLike("video", videoId, userId)}
                /\ lastToggle' = ToggleResponse(op, userId, videoId, 500, FALSE, 0)
        /\ UNCHANGED <<deployed, subscriptions, videos>>

InitFailures ==
    /\ users = << >>
    /\ issuedBy = << >>
    /\ last = Response("none", 0, 0, NoToken, NoToken)
    /\ calls = NoCalls
    /\ deployed = "likeCount"
    /\ likes = {}
    /\ subscriptions = {}
    /\ videos = [v \in ExistingVideos |-> [likeCount |-> 0]]
    /\ called = [rel \in Relations |-> FALSE]
    /\ lastToggle = ToggleResponse("none", 0, 0, 0, FALSE, 0)
    /\ NoViews
    /\ NoCrud

RegisterOrFail ==
    \E who \in Registrants, avatarOk \in BOOLEAN, saved \in BOOLEAN :
        /\ IF saved
           THEN registerUser(who[1], who[2], "p", avatarOk)
           ELSE registerUserTokensFail(who[1], who[2], "p", avatarOk)
        /\ UNCHANGED <<calls, toggleVars, viewVars, crudVars>>

ToggleVideoLikeCountOrFail ==
    \E userId \in Actors, videoId \in VideoIds \cup {MalformedId}, saved \in BOOLEAN :
        /\ \A v \in DOMAIN videos : videos[v].likeCount < MaxLikeCount
        /\ IF saved
           THEN toggleVideoLikeCount(userId, videoId)
           ELSE toggleVideoLikeCountSaveFails(userId, videoId)
        /\ Called("video", userId, videoId)
        /\ UNCHANGED <<authVars, calls, viewVars, crudVars>>

NextFailures ==
    \/ RegisterOrFail
    \/ ToggleVideoLikeCountOrFail

SpecFailures == InitFailures /\ [][NextFailures]_vars

\* C23: a register request that is not answered 201 leaves the accounts as
\* they were, and a video-like toggle that is not answered 200 leaves the
\* Like rows and the like counts of the videos as they were.
C23_NoPartialEffect ==
    /\ [][(last' # last /\ last'.op = "register" /\ last'.status # 201)
          => users' = users]_vars
    /\ [][(lastToggle' # lastToggle /\ lastToggle'.op = "toggleVideoLikeCount"
              /\ lastToggle'.status # 200)
          => (likes' = likes /\ videos' = videos)]_vars

\* C25: the like count of every video is at least 0, and an unlike of a video
\* whose like count is 0 leaves it 0.
C25_LikeCountNotNegative ==
    /\ [](\A v \in DOMAIN videos : videos[v].likeCount >= 0)
    /\ [][\A u \in Actors, v \in DOMAIN videos :
             (toggleVideoLikeCount(u, v) /\ LikeRows("video", v, u) # {}
                 /\ videos[v].likeCount = 0)
             => (videos'[v].likeCount = 0 /\ lastToggle'.totalLikes = 0)]_vars

\* An unlike was answered a like count of 0 while a Like row of the other
\* actor is still stored for the video.
C25_Witness ==
    /\ lastToggle.op = "toggleVideoLikeCount"
    /\ lastToggle.status = 200
    /\ ~lastToggle.liked
    /\ lastToggle.totalLikes = 0
    /\ lastToggle.target \in DOMAIN videos
    /\ videos[lastToggle.target].likeCount = 0
    /\ VideoLikes(lastToggle.target) # {}

(***************************************************************************)
(* playlist.controller.js                                                  *)
(***************************************************************************)
\* The video ids a playlist request may name.
PlaylistVideoIds == {1, 2, 3}

\* A Playlist row as createPlaylist of its owner creates it, with its videos.
Playlist(id, owner, name, list) ==
    [id |-> id, owner |-> owner, name |-> name, description |-> "d", videos |-> list]

\* The elements of a list.
Range(seq) == {seq[i] : i \in DOMAIN seq}

\* The lists that hold every element of a set once.
ListsOf(set) ==
    {seq \in [1 .. Cardinality(set) -> set] : Range(seq) = set}

\* The lists $setUnion can return for the playlist and the video: the video
\* ids of the playlist and the given one, each once, in any order.
SetUnion(playlistId, videoId) ==
    IF \A p \in playlists : p.id # playlistId
    THEN {<< >>}
    ELSE UNION {ListsOf(Range(p.videos) \cup {videoId}) :
                   p \in {q \in playlists : q.id = playlistId}}

\* $match {_id}, $addFields {videos: {$setUnion: ["$videos", [videoId]]}},
\* $merge into playlists.  $setUnion returns the union without duplicates in
\* an order that is not specified: `ordered` is the one the engine returns.
\* An aggregation that ends in $merge returns an empty array, which passes
\* the `!updatedPlaylist` check with or without a playlist matched.
addVideoToPlaylist(userId, playlistId, videoId, ordered) ==
    LET op == "addVideoToPlaylist"
    IN  IF ~isValidObjectId(playlistId) \/ ~isValidObjectId(videoId)
        THEN /\ lastPlaylist' = PlaylistResponse(op, 400, userId, playlistId)
             /\ UNCHANGED playlists
        ELSE /\ playlists' = {IF p.id = playlistId THEN [p EXCEPT !.videos = ordered] ELSE p :
                                 p \in playlists}
             /\ lastPlaylist' = PlaylistResponse(op, 200, userId, playlistId)

\* findByIdAndUpdate(playlistId, {$pull: {videos: videoId}})
removeVideoFromPlaylist(userId, playlistId, videoId) ==
    LET op == "removeVideoFromPlaylist"
        found == {p \in playlists : p.id = playlistId}
    IN  IF ~isValidObjectId(playlistId) \/ ~isValidObjectId(videoId)
        THEN /\ lastPlaylist' = PlaylistResponse(op, 400, userId, playlistId)
             /\ UNCHANGED playlists
        ELSE IF found = {}
        THEN /\ lastPlaylist' = PlaylistResponse(op, 404, userId, playlistId)
             /\ UNCHANGED playlists
        ELSE /\ playlists' = {IF p \in found
                              THEN [p EXCEPT !.videos = SelectSeq(@, LAMBDA v : v # videoId)]
                              ELSE p : p \in playlists}
             /\ lastPlaylist' = PlaylistResponse(op, 200, userId, playlistId)

\* findByIdAndDelete(playlistId)
deletePlaylist(userId, playlistId) ==
    LET op == "deletePlaylist"
        found == {p \in playlists : p.id = playlistId}
    IN  IF ~isValidObjectId(playlistId)
        THEN /\ lastPlaylist' = PlaylistResponse(op, 400, userId, playlistId)
             /\ UNCHANGED playlists
        ELSE IF found = {}
        THEN /\ lastPlaylist' = PlaylistResponse(op, 404, userId, playlistId)
             /\ UNCHANGED playlists
        ELSE /\ playlists' = playlists \ found
             /\ lastPlaylist' = PlaylistResponse(op, 200, userId, playlistId)

\* findByIdAndUpdate(playlistId, {$set: {name, description}})
updatePlaylist(userId, playlistId, name, description) ==
    LET op == "updatePlaylist"
        found == {p \in playlists : p.id = playlistId}
    IN  IF ~isValidObjectId(playlistId) \/ name = Blank \/ description = Blank
        THEN /\ lastPlaylist' = PlaylistResponse(op, 400, userId, playlistId)
             /\ UNCHANGED playlists
        ELSE IF found = {}
        THEN /\ lastPlaylist' = PlaylistResponse(op, 404, userId, playlistId)
             /\ UNCHANGED playlists
        ELSE /\ playlists' = {IF p \in found
                              THEN [p EXCEPT !.name = name, !.description = description]
                              ELSE p : p \in playlists}
             /\ lastPlaylist' = PlaylistResponse(op, 200, userId, playlistId)

\* Account 1 has created playlist 1, which holds no video yet.
InitPlaylist ==
    /\ TwoAccounts
    /\ calls = NoCalls
    /\ NoToggles
    /\ NoViews
    /\ playlists = {Playlist(1, 1, "n", << >>)}
    /\ lastPlaylist = PlaylistResponse("none", 0, 0, 0)
    /\ lastComment = CommentResponse("none", 0, 0, 0)
    /\ commentsCreated = 0
    /\ tweets = {}
    /\ stats = StatsResponse("none", 0, 0, 0, 0, 0, {})

AddVideoToPlaylist ==
    \E userId \in Actors, playlistId \in {1, 2, MalformedId}, videoId \in PlaylistVideoIds :
        \E ordered \in SetUnion(playlistId, videoId) :
            /\ addVideoToPlaylist(userId, playlistId, videoId, ordered)
            /\ UNCHANGED <<authVars, calls, toggleVars, viewVars, lastComment,
                           commentsCreated, tweets, stats>>

RemoveVideoFromPlaylist ==
    \E userId \in Actors, playlistId \in {1, 2, MalformedId}, videoId \in PlaylistVideoIds :
        /\ removeVideoFromPlaylist(userId, playlistId, videoId)
        /\ UNCHANGED <<authVars, calls, toggleVars, viewVars, lastComment,
                       commentsCreated, tweets, stats>>

DeletePlaylist ==
    \E userId \in Actors, playlistId \in {1, 2, MalformedId} :
        /\ deletePlaylist(userId, playlistId)
        /\ UNCHANGED <<authVars, calls, toggleVars, viewVars, lastComment,
                       commentsCreated, tweets, stats>>

UpdatePlaylist ==
    \E userId \in Actors, playlistId \in {1, 2, MalformedId}, name \in {"m", Blank} :
        /\ updatePlaylist(userId, playlistId, name, "d")
        /\ UNCHANGED <<authVars, calls, toggleVars, viewVars, lastComment,
                       commentsCreated, tweets, stats>>

NextPlaylist ==
    \/ AddVideoToPlaylist
    \/ RemoveVideoFromPlaylist
    \/ DeletePlaylist
    \/ UpdatePlaylist

SpecPlaylist == InitPlaylist /\ [][NextPlaylist]_vars

\* No video id is twice in the list.
NoDuplicates(list) ==
    \A i, j \in DOMAIN list : i # j => list[i] # list[j]

\* C26: no playlist holds a video id twice; addVideoToPlaylist of a video
\* that the playlist holds leaves its list as it was; and
\* removeVideoFromPlaylist leaves the list without the video and with every
\* other entry in its place.
C26_PlaylistIsOrderedSet ==
    /\ [](\A p \in playlists : NoDuplicates(p.videos))
    /\ [][\A p \in playlists, v \in PlaylistVideoIds :
             /\ (v \in Range(p.videos)
                 /\ \E u \in Actors, ordered \in SetUnion(p.id, v) :
                       addVideoToPlaylist(u, p.id, v, ordered))
                => p \in playlists'
             /\ (\E u \in Actors : removeVideoFromPlaylist(u, p.id, v))
                => [p EXCEPT !.videos = SelectSeq(@, LAMBDA w : w # v)] \in playlists']_vars

\* C30: a playlist request of an account that does not own the playlist
\* leaves the playlist as it was.
C30_OwnerOnlyPlaylist ==
    [][\A p \in playlists :
          (lastPlaylist' # lastPlaylist /\ lastPlaylist'.target = p.id
              /\ lastPlaylist'.caller # p.owner)
          => p \in playlists']_vars

(***************************************************************************)
(* Concurrent video-like toggles of the like-count revision, one by each   *)
(* caller, each caller being another account, all on video 1.              *)
(***************************************************************************)
\* A toggle request that has not started: likeCount is the like count of the
\* video document the request has loaded.
NewCountedToggle(actor, target) ==
    [pc |-> "start", kind |-> "video", actor |-> actor, target |-> target,
     existing |-> NoRow, status |-> 0, likeCount |-> 0]

\* Video.findById(videoId)
CountedFindVideo(c) ==
    LET req == inflight[c]
    IN  /\ req.pc = "start"
        /\ inflight' = [inflight EXCEPT ![c] =
                           IF req.target \notin DOMAIN videos
                           THEN [@ EXCEPT !.pc = "done", !.status = 404]
                           ELSE [@ EXCEPT !.pc = "loaded",
                                          !.likeCount = videos[req.target].likeCount]]
        /\ UNCHANGED <<authVars, calls, toggleVars, comments, now, listing, profile, crudVars>>

\* Like.findOne({video, likedBy})
CountedFindLike(c) ==
    LET req == inflight[c]
    IN  /\ req.pc = "loaded"
        /\ inflight' = [inflight EXCEPT ![c] =
                           [@ EXCEPT !.pc = "found",
                                     !.existing = findOne(LikeRows("video", req.target,
                                                                   req.actor))]]
        /\ UNCHANGED <<authVars, calls, toggleVars, comments, now, listing, profile, crudVars>>

\* existingLike.deleteOne() and the floored decrement, or Like.create and the
\* increment, of the loaded document
CountedWriteLike(c) ==
    LET req == inflight[c]
    IN  /\ req.pc = "found"
        /\ IF req.existing # NoRow
           THEN /\ likes' = likes \ {req.existing}
                /\ inflight' = [inflight EXCEPT ![c] =
                                   [@ EXCEPT !.pc = "written",
                                             !.likeCount = IF @ >= 1 THEN @ - 1 ELSE 0]]
           ELSE /\ likes' = likes \cup {NewLike("video", req.target, req.actor)}
                /\ inflight' = [inflight EXCEPT ![c] =
                                   [@ EXCEPT !.pc = "written", !.likeCount = @ + 1]]
        /\ UNCHANGED <<authVars, calls, deployed, subscriptions, videos, called, lastToggle,
                       comments, now, listing, profile, crudVars>>

\* video.save(): the like count of the loaded document is stored.
CountedSaveVideo(c) ==
    LET req == inflight[c]
    IN  /\ req.pc = "written"
        /\ videos' = [videos EXCEPT ![req.target].likeCount = req.likeCount]
        /\ inflight' = [inflight EXCEPT ![c] = [@ EXCEPT !.pc = "done", !.status = 200]]
        /\ UNCHANGED <<authVars, calls, deployed, likes, subscriptions, called, lastToggle,
                       comments, now, listing, profile, crudVars>>

\* Some of the callers like video 1 already, and its like count is the number
\* of their Like rows; every caller is about to send one toggle request.
InitCountedRace ==
    /\ users = << >>
    /\ issuedBy = << >>
    /\ last = Response("none", 0, 0, NoToken, NoToken)
    /\ calls = NoCalls
    /\ deployed = "likeCount"
    /\ likes \in SUBSET {LikeOf("video", 1, c) : c \in Callers}
    /\ subscriptions = {}
    /\ videos = [v \in ExistingVideos |-> [likeCount |-> Cardinality(likes)]]
    /\ called = [rel \in Relations |-> FALSE]
    /\ lastToggle = ToggleResponse("none", 0, 0, 0, FALSE, 0)
    /\ inflight = [c \in Callers |-> NewCountedToggle(c, 1)]
    /\ comments = {}
    /\ now = 1
    /\ listing = ListingResponse("none", 0, 0, 0, 0, 0, 0, << >>, << >>)
    /\ profile = ProfileResponse(0, "", 0, 0, 0, 0, FALSE)
    /\ NoCrud

NextCountedRace ==
    \/ \E c \in Callers : CountedFindVideo(c)
    \/ \E c \in Callers : CountedFindLike(c)
    \/ \E c \in Callers : CountedWriteLike(c)
    \/ \E c \in Callers : CountedSaveVideo(c)

SpecCountedRace == InitCountedRace /\ [][NextCountedRace]_vars

\* C28: once every concurrent toggle has completed, the like count of the
\* video is the number of its Like rows.
C28_CountAfterRace ==
    (\A c \in Callers : inflight[c].pc = "done")
    => \A v \in DOMAIN videos : videos[v].likeCount = Cardinality(VideoLikes(v))

(***************************************************************************)
(* Properties of the credential lifecycle.                                 *)
(***************************************************************************)
\* The refresh token tok was presented to a refresh that succeeded: the token
\* signed next for its account was signed by refresh.
WasRotated(tok) ==
    /\ tok.n < issued(tok.uid)
    /\ issuedBy[tok.uid][tok.n + 1] = "refresh"

\* C1: rotation invalidation.  Once refresh(R1) has succeeded and stored a new
\* token, every later refresh(R1) answers 401, returns no token, signs no
\* token and leaves the account as it is.
C1_RotationInvalidation ==
    [][\A tok \in SignedTokens :
          (last'.op = "refresh" /\ WasRotated(tok) /\ refreshAccessToken(tok))
          => /\ last'.status = 401
             /\ last'.refreshToken = NoToken
             /\ users' = users
             /\ issuedBy' = issuedBy]_vars

\* A login signed R1, a refresh accepted R1, and the last request, a refresh
\* presenting R1 again, was answered 401.
C1_Witness ==
    /\ last.op = "refresh"
    /\ last.status = 401
    /\ last.token \in SignedTokens
    /\ WasRotated(last.token)
    /\ issuedBy[last.token.uid][last.token.n] = "login"

\* C2: a successful refresh returns the refresh token it stored on the
\* account, so that a following refresh with the returned token is accepted.
C2_RefreshReturnsStoredToken ==
    (last.op = "refresh" /\ last.status = 200)
    => /\ last.refreshToken # NoToken
       /\ last.refreshToken = Stored(last.uid)
       /\ RefreshAccepts(last.refreshToken)

\* C3: when logout of an account has completed, its stored refresh token is
\* empty and no refresh token signed for it is accepted by refresh.
C3_LogoutInvalidates ==
    last.op = "logout"
    => /\ Stored(last.uid) = NoToken
       /\ \A tok \in SignedTokens : tok.uid = last.uid => ~RefreshAccepts(tok)

\* C4: single live session per account.  At most one refresh token of an
\* account is accepted at any time, and it is the stored one; a successful
\* login stores the token it returns, and every refresh token signed for the
\* account before is rejected.
C4_SingleSession ==
    /\ \A tok \in SignedTokens : RefreshAccepts(tok) => tok = Stored(tok.uid)
    /\ \A u \in UserIds :
          Cardinality({tok \in SignedTokens : tok.uid = u /\ RefreshAccepts(tok)}) <= 1
    /\ (last.op = "login" /\ last.status = 200)
       => /\ last.refreshToken # NoToken
          /\ Stored(last.uid) = last.refreshToken
          /\ \A tok \in SignedTokens :
                (tok.uid = last.uid /\ tok # last.refreshToken) => ~RefreshAccepts(tok)

\* A login succeeded for an account that held an earlier token: the returned
\* token is accepted, the earlier one is not.
C4_Witness ==
    /\ last.op = "login"
    /\ last.status = 200
    /\ last.refreshToken.n >= 2
    /\ RefreshAccepts(last.refreshToken)
    /\ ~RefreshAccepts([uid |-> last.uid, n |-> last.refreshToken.n - 1])

\* C6: the stored password of every account is a hash, never the plaintext
\* given to register or changePassword.
C6_PasswordIsHashed ==
    \A u \in UserIds : users[u].password.depth >= 1

\* The account the given username or email names, compared case-insensitively
\* (stored usernames and emails are lowercase).
AccountsNamed(username, email) ==
    {u \in UserIds :
        \/ username # Blank /\ toLowerCase(users[u].username) = toLowerCase(username)
        \/ email # Blank /\ toLowerCase(users[u].email) = toLowerCase(email)}

\* The stored hash of account u is a hash of the plaintext password.
HashVerifies(u, password) == users[u].password = [base |-> password, depth |-> 1]

\* C7: a login naming no account answers 404, and a login whose password
\* fails the hash check answers 401; neither returns a token, signs a token
\* or changes an account.
C7_LoginFailures ==
    [][last'.op = "login"
       => LET named == AccountsNamed(last'.username, last'.email)
          IN  /\ ((last'.username # Blank \/ last'.email # Blank) /\ named = {})
                 => (last'.status = 404 /\ last'.refreshToken = NoToken
                     /\ users' = users /\ issuedBy' = issuedBy)
              /\ (\E u \in named :
                     /\ \A v \in named : u <= v
                     /\ ~HashVerifies(u, last'.password))
                 => (last'.status = 401 /\ last'.refreshToken = NoToken
                     /\ users' = users /\ issuedBy' = issuedBy)]_vars

\* A login was answered 401 while the account holds a refresh token.
C7_Witness ==
    /\ last.op = "login"
    /\ last.status = 401
    /\ \E u \in UserIds : Stored(u) # NoToken

\* No two accounts share a username or an email, compared case-insensitively.
NoSharedIdentity ==
    \A u, v \in UserIds :
        u # v => /\ toLowerCase(users[u].username) # toLowerCase(users[v].username)
                 /\ toLowerCase(users[u].email) # toLowerCase(users[v].email)

\* Some account has the username or the email, compared case-insensitively.
IdentityTaken(username, email) ==
    \E u \in UserIds :
        \/ toLowerCase(users[u].username) = toLowerCase(username)
        \/ toLowerCase(users[u].email) = toLowerCase(email)

C9_ChangePasswordFrame ==
    [][\A uid \in UserIds, oldPassword \in Plaintexts, newPassword \in Plaintexts :
          (last'.op = "changePassword"
           /\ changeCurrentPassword(uid, oldPassword, newPassword))
          => /\ HashVerifies(uid, oldPassword)
                => /\ last'.status = 200
                   /\ Stored(uid)' = Stored(uid)
                   /\ issuedBy' = issuedBy
                   /\ \A tok \in SignedTokens : RefreshAccepts(tok)' = RefreshAccepts(tok)
             /\ ~HashVerifies(uid, oldPassword)
                => /\ last'.status = 401
                   /\ users'[uid].password = users[uid].password]_vars

\* A changePassword succeeded and the refresh token signed before it is
\* still accepted.
C9_Witness ==
    /\ last.op = "changePassword"
    /\ last.status = 200
    /\ Stored(last.uid) # NoToken
    /\ RefreshAccepts(Stored(last.uid))

\* C27: a login that names an account is answered 200 exactly when its
\* password is the one most recently set for the account by register or
\* changePassword (the plaintext the stored password derives from), and a
\* request that stores a refresh token leaves the stored password of every
\* account as it was.
C27_CredentialRoundTrip ==
    /\ [][last'.op = "login"
          => LET named == AccountsNamed(last'.username, last'.email)
             IN  \A u \in named :
                    (\A v \in named : u <= v)
                    => (last'.status = 200 <=> last'.password = users[u].password.base)]_vars
    /\ [][(last' # last /\ last'.op \in {"login", "refresh"} /\ last'.status = 200)
          => \A u \in UserIds : users'[u].password = users[u].password]_vars
====
